---- MODULE Spec2Model ----
(***************************************************************************)
(* A model of cookie-rs: the Cookie record, the DeltaCookie wrapper and    *)
(* the delta-tracking CookieJar (src/lib.rs, src/delta.rs, src/jar.rs).    *)
(*                                                                         *)
(* Option<T> is modelled as a tuple: None is <<>> and Some(x) is <<x>>.    *)
(* A HashSet<DeltaCookie> is modelled as a set of DeltaCookie records; the *)
(* set operations compare elements the way the code's Eq/Hash/Borrow<str>  *)
(* impls do, by cookie name only, so "one entry per name" is a property of *)
(* the operations and not of the representation.                           *)
(* Time is counted in whole days since the Unix epoch; one step of the     *)
(* clock stands for any time that passes between two calls.                *)
(***************************************************************************)
EXTENDS Integers, Sequences, FiniteSets, TLC

VARIABLES original_cookies, delta_cookies, now, last, prev

vars == <<original_cookies, delta_cookies, now, last, prev>>

-----------------------------------------------------------------------------
(* Bounds and input domains *)

\* The clock advances at most this many days after the jar is constructed.
MaxTime == 1

Names == {"a", "b"}
Values == {"1", "2"}

\* The (path, domain) pairs a caller sets on a cookie before passing it in.
PathDomains == { <<(<<>>), (<<>>)>>, <<(<<"/">>), (<<"example.com">>)>> }

-----------------------------------------------------------------------------
(* Option *)

None == <<>>
Some(x) == <<x>>
IsSome(o) == o # <<>>
Unwrap(o) == o[1]

-----------------------------------------------------------------------------
(* Cookie (src/lib.rs) *)

\* Duration::days(365), the distance make_removal puts the expiry in the past.
OneYear == 365

\* datetime!(9999-12-31 23:59:59.999_999 UTC), in days since the epoch.
MAX_DATETIME == 2932896

Min(a, b) == IF a < b THEN a ELSE b

\* Expiration::DateTime(t)
DateTime(t) == [tag |-> "DateTime", time |-> t]

\* Expiration::Session
Session == [tag |-> "Session"]

\* Cookie::new
CookieNew(name, value) ==
    [ name |-> name, value |-> value, expires |-> None, max_age |-> None,
      domain |-> None, path |-> None, secure |-> None, http_only |-> None,
      same_site |-> None, partitioned |-> None ]

\* Cookie::set_value
set_value(c, value) == [c EXCEPT !.value = value]

\* Duration::new(seconds, nanoseconds): the whole seconds by their sign and
\* their decimal digits, and the part of a second beyond them in nanoseconds
DurationNew(negative, digits, nanoseconds) ==
    [negative |-> negative, digits |-> digits, nanoseconds |-> nanoseconds]

\* Duration::seconds(n) for the whole number n written in decimal digits: a
\* duration is held by its sign and its digits, so that it has the range of
\* an i64
DurationSeconds(negative, digits) == DurationNew(negative, digits, 0)

\* Duration::zero()
DurationZero == DurationSeconds(FALSE, "0")

\* Cookie::set_max_age
set_max_age(c, d) == [c EXCEPT !.max_age = d]

\* Cookie::set_path
set_path(c, p) == [c EXCEPT !.path = Some(p)]

\* Cookie::set_domain
set_domain(c, d) == [c EXCEPT !.domain = Some(d)]

\* Cookie::set_expires
\* (Expiration::map caps a DateTime at MAX_DATETIME and keeps a Session)
set_expires(c, e) ==
    [c EXCEPT !.expires =
        Some(IF e.tag = "DateTime"
             THEN DateTime(Min(e.time, MAX_DATETIME))
             ELSE e)]

\* Cookie::make_removal, called when the clock reads t
make_removal(c, t) ==
    set_expires(set_max_age(set_value(c, ""), Some(DurationZero)), DateTime(t - OneYear))

\* The cookies callers pass to the jar: Cookie::build((name, value)) with the
\* path and the domain either both left unset or both set.
BuildCookie(n, v, pd) ==
    LET c0 == CookieNew(n, v)
        c1 == IF IsSome(pd[1]) THEN set_path(c0, Unwrap(pd[1])) ELSE c0
    IN  IF IsSome(pd[2]) THEN set_domain(c1, Unwrap(pd[2])) ELSE c1

Cookies == { BuildCookie(n, v, pd) : n \in Names, v \in Values, pd \in PathDomains }

\* The cookies passed to add_original: what a client sends in a Cookie header,
\* a name and a value without attributes.
ClientCookies == { c \in Cookies : c.path = None /\ c.domain = None }

\* The cookies passed to remove: one value per name, path and domain.
RemovalCookies == { c \in Cookies : c.value = "1" }

-----------------------------------------------------------------------------
(* DeltaCookie (src/delta.rs) *)

\* DeltaCookie::added
added(cookie) == [cookie |-> cookie, removed |-> FALSE]

\* DeltaCookie::removed
removed(cookie) == [cookie |-> cookie, removed |-> TRUE]

\* impl PartialEq for DeltaCookie: equality is equality of names
DeltaEq(x, y) == x.cookie.name = y.cookie.name

\* impl Borrow<str> for DeltaCookie: lookup by &str compares with the name
Borrow(x) == x.cookie.name

-----------------------------------------------------------------------------
(* std::collections::HashSet<DeltaCookie>, as the jar uses it *)

\* HashSet::get(name): the element equal to the key, if any
HashGet(set, name) ==
    IF \E x \in set : Borrow(x) = name
    THEN Some(CHOOSE x \in set : Borrow(x) = name)
    ELSE None

\* HashSet::contains(name)
HashContains(set, name) == \E x \in set : Borrow(x) = name

\* A set insertion that keeps the element already equal to the new one
HashReplace_keepsOld(set, value) == set \cup {value}

\* HashSet::replace(value): insert, replacing the element equal to it, if any
HashReplace(set, value) == { x \in set : ~DeltaEq(x, value) } \cup {value}

\* A remove that empties the set
HashRemove_all(set, name) == {}

\* HashSet::remove(name)
HashRemove(set, name) == { x \in set : Borrow(x) # name }

\* HashSet::difference(other): the elements of set with no equal in other
HashDifference(set, other) == { x \in set : ~\E y \in other : DeltaEq(x, y) }

\* HashSet::iter(): every element once, in an order the hasher decides
RECURSIVE HashIter(_)
HashIter(set) ==
    IF set = {} THEN <<>>
    ELSE LET x == CHOOSE y \in set : TRUE
         IN  <<x>> \o HashIter(set \ {x})

-----------------------------------------------------------------------------
(* CookieJar (src/jar.rs) as a value: self is a record of the two sets *)

\* struct CookieJar
CookieJar(original, delta) ==
    [original_cookies |-> original, delta_cookies |-> delta]

\* CookieJar::new
new == CookieJar({}, {})

\* A lookup that consults original_cookies before delta_cookies
get_originalFirst(self, name) ==
    LET o == HashGet(self.original_cookies, name)
        c == IF IsSome(o) THEN o ELSE HashGet(self.delta_cookies, name)
    IN  IF IsSome(c) /\ ~Unwrap(c).removed THEN Some(Unwrap(c).cookie) ELSE None

\* CookieJar::get
get(self, name) ==
    LET d == HashGet(self.delta_cookies, name)
        c == IF IsSome(d) THEN d ELSE HashGet(self.original_cookies, name)
    IN  IF IsSome(c) /\ ~Unwrap(c).removed THEN Some(Unwrap(c).cookie) ELSE None

\* An add_original that records the cookie as a change as well
add_original_intoDelta(self, cookie) ==
    [self EXCEPT !.original_cookies = HashReplace(@, added(cookie)),
                 !.delta_cookies = HashReplace(@, added(cookie))]

\* An add_original that drops the pending change of the cookie's name
add_original_clearsDelta(self, cookie) ==
    [self EXCEPT !.original_cookies = HashReplace(@, added(cookie)),
                 !.delta_cookies = HashRemove(@, cookie.name)]

\* CookieJar::add_original
add_original(self, cookie) ==
    [self EXCEPT !.original_cookies = HashReplace(@, added(cookie))]

\* CookieJar::add
add(self, cookie) ==
    [self EXCEPT !.delta_cookies = HashReplace(@, added(cookie))]

\* A remove that builds the removal cookie from the stored original
remove_fromOriginal(self, cookie, t) ==
    IF HashContains(self.original_cookies, cookie.name)
    THEN LET o == Unwrap(HashGet(self.original_cookies, cookie.name)).cookie
         IN  [self EXCEPT !.delta_cookies =
                  HashReplace(@, removed(make_removal(o, t)))]
    ELSE [self EXCEPT !.delta_cookies = HashRemove(@, cookie.name)]

\* A remove that records a removal cookie whether or not an original exists
remove_alwaysMarks(self, cookie, t) ==
    [self EXCEPT !.delta_cookies =
         HashReplace(@, removed(make_removal(cookie, t)))]

\* A remove that first cancels a pending change of the name, if there is one
remove_cancelsPending(self, cookie, t) ==
    IF HashContains(self.delta_cookies, cookie.name)
    THEN [self EXCEPT !.delta_cookies = HashRemove(@, cookie.name)]
    ELSE IF HashContains(self.original_cookies, cookie.name)
    THEN [self EXCEPT !.delta_cookies =
              HashReplace(@, removed(make_removal(cookie, t)))]
    ELSE self

\* CookieJar::remove, called when the clock reads t
remove(self, cookie, t) ==
    IF HashContains(self.original_cookies, cookie.name)
    THEN [self EXCEPT !.delta_cookies =
              HashReplace(@, removed(make_removal(cookie, t)))]
    ELSE [self EXCEPT !.delta_cookies = HashRemove(@, cookie.name)]

\* A force_remove that forgets the original
force_remove_deltaOnly(self, name) ==
    [self EXCEPT !.delta_cookies = HashRemove(@, name)]

\* A force_remove that forgets the delta entry
force_remove_originalOnly(self, name) ==
    [self EXCEPT !.original_cookies = HashRemove(@, name)]

\* CookieJar::force_remove
force_remove(self, name) ==
    [self EXCEPT !.original_cookies = HashRemove(@, name),
                 !.delta_cookies = HashRemove(@, name)]

\* A reset_delta that drops the added cookies and keeps the removal markers
reset_delta_keepsRemovals(self) ==
    [self EXCEPT !.delta_cookies = { x \in @ : x.removed }]

\* CookieJar::reset_delta
reset_delta(self) == [self EXCEPT !.delta_cookies = {}]

\* CookieJar::delta with Delta::next: the cookie of every delta entry
delta(self) ==
    LET s == HashIter(self.delta_cookies)
    IN  [i \in 1..Len(s) |-> s[i].cookie]

\* A chain that takes every original, shadowed or not
IterChain_allOriginals(self) ==
    HashIter(self.delta_cookies) \o HashIter(self.original_cookies)

\* CookieJar::iter: delta_cookies chained with original_cookies \ delta_cookies
IterChain(self) ==
    HashIter(self.delta_cookies)
        \o HashIter(HashDifference(self.original_cookies, self.delta_cookies))

\* An iterator that yields the removal markers too
iter_keepsRemoved(self) ==
    LET s == IterChain(self)
    IN  [i \in 1..Len(s) |-> s[i].cookie]

\* Iter::next, run to exhaustion: the chained entries that are not removed
iter(self) ==
    LET keep(x) == ~x.removed
        s == SelectSeq(IterChain(self), keep)
    IN  [i \in 1..Len(s) |-> s[i].cookie]

-----------------------------------------------------------------------------
(* The jar under test: its state, the clock, and the calls made on it *)

\* The jar the calls are made on
Jar == CookieJar(original_cookies, delta_cookies)

\* The record of a call: the method, the name it is about and its argument.
Call(op, name, cookie) == [op |-> op, name |-> name, cookie |-> cookie]

Init ==
    /\ original_cookies = new.original_cookies
    /\ delta_cookies = new.delta_cookies
    /\ now = 0
    /\ last = Call("new", "", None)
    /\ prev = Call("new", "", None)

AddOriginal(cookie) ==
    /\ original_cookies' = add_original(Jar, cookie).original_cookies
    /\ delta_cookies' = add_original(Jar, cookie).delta_cookies
    /\ last' = Call("add_original", cookie.name, Some(cookie))
    /\ prev' = last
    /\ UNCHANGED now

Add(cookie) ==
    /\ original_cookies' = add(Jar, cookie).original_cookies
    /\ delta_cookies' = add(Jar, cookie).delta_cookies
    /\ last' = Call("add", cookie.name, Some(cookie))
    /\ prev' = last
    /\ UNCHANGED now

Remove(cookie) ==
    /\ original_cookies' = remove(Jar, cookie, now).original_cookies
    /\ delta_cookies' = remove(Jar, cookie, now).delta_cookies
    /\ last' = Call("remove", cookie.name, Some(cookie))
    /\ prev' = last
    /\ UNCHANGED now

ForceRemove(name) ==
    /\ original_cookies' = force_remove(Jar, name).original_cookies
    /\ delta_cookies' = force_remove(Jar, name).delta_cookies
    /\ last' = Call("force_remove", name, None)
    /\ prev' = last
    /\ UNCHANGED now

ResetDelta ==
    /\ original_cookies' = reset_delta(Jar).original_cookies
    /\ delta_cookies' = reset_delta(Jar).delta_cookies
    /\ last' = Call("reset_delta", "", None)
    /\ prev' = last
    /\ UNCHANGED now

\* OffsetDateTime::now_utc(): the wall clock moves on between two calls
Tick ==
    /\ now < MaxTime
    /\ now' = now + 1
    /\ UNCHANGED <<original_cookies, delta_cookies, last, prev>>

Next ==
    \/ \E cookie \in ClientCookies : AddOriginal(cookie)
    \/ \E cookie \in Cookies : Add(cookie)
    \/ \E cookie \in RemovalCookies : Remove(cookie)
    \/ \E name \in Names : ForceRemove(name)
    \/ ResetDelta
    \/ Tick

Spec == Init /\ [][Next]_vars

-----------------------------------------------------------------------------
(* What the claims observe *)

\* The cookies a Delta or Iter yields, with how often each is yielded
\* (the order of a HashSet iteration is not part of any contract).
Items(seq) ==
    LET range == { seq[i] : i \in 1..Len(seq) }
    IN  [c \in range |-> Cardinality({ i \in 1..Len(seq) : seq[i] = c })]

\* How many of the yielded cookies have the name n
CountNamed(seq, n) == Cardinality({ i \in 1..Len(seq) : seq[i].name = n })

\* The entries of a collection that have the name n
Named(set, n) == { x \in set : x.cookie.name = n }

-----------------------------------------------------------------------------
(* C1: name uniqueness *)

\* C1: in every reachable state original_cookies and delta_cookies each hold
\* at most one entry per cookie name, and after add(c) get(c.name) returns c
\* (the latest value) and iter() yields exactly one cookie named c.name.
C1_OneEntryPerName ==
    /\ \A x, y \in original_cookies : x.cookie.name = y.cookie.name => x = y
    /\ \A x, y \in delta_cookies : x.cookie.name = y.cookie.name => x = y
    /\ last.op = "add" =>
          /\ get(Jar, last.name) = last.cookie
          /\ CountNamed(iter(Jar), last.name) = 1

\* add((k,v1)); add((k,v2)) with v1 # v2 has happened, on a name that
\* original_cookies holds too, and get(k) has the value v2.
C1_Witness ==
    /\ prev.op = "add" /\ last.op = "add" /\ prev.name = last.name
    /\ Unwrap(prev.cookie).value # Unwrap(last.cookie).value
    /\ HashContains(original_cookies, last.name)
    /\ Unwrap(get(Jar, last.name)).value = Unwrap(last.cookie).value

-----------------------------------------------------------------------------
(* C2: get *)

\* C2: for every name n, get(n) is the delta_cookies entry of n when there is
\* one and it is not marked removed, None when the delta entry of n is marked
\* removed, and the original_cookies entry of n (or None) only when
\* delta_cookies has no entry of n.
C2_GetShadowing ==
    \A n \in Names :
        LET D == Named(delta_cookies, n)
            O == Named(original_cookies, n)
        IN  /\ \A d \in D : ~d.removed => get(Jar, n) = Some(d.cookie)
            /\ \A d \in D : d.removed => get(Jar, n) = None
            /\ D = {} => \A o \in O : get(Jar, n) = Some(o.cookie)
            /\ (D = {} /\ O = {}) => get(Jar, n) = None

\* One name has an original and a removal marker (get is None); another name
\* has an original overridden by an added cookie of a different value.
C2_Witness ==
    \E n, m \in Names :
        /\ n # m
        /\ \E d \in Named(delta_cookies, n) : d.removed
        /\ Named(original_cookies, n) # {}
        /\ get(Jar, n) = None
        /\ \E d \in Named(delta_cookies, m), o \in Named(original_cookies, m) :
              /\ ~d.removed
              /\ d.cookie.value # o.cookie.value
              /\ get(Jar, m) = Some(d.cookie)

-----------------------------------------------------------------------------
(* C3: iter *)

\* The live cookies of the jar
Live ==
    { d.cookie : d \in { x \in delta_cookies : ~x.removed } }
        \cup { o.cookie : o \in { x \in original_cookies :
                                      Named(delta_cookies, x.cookie.name) = {} } }

\* C3: iter() yields every live cookie exactly once and nothing else: the
\* delta entries not marked removed and the originals whose name has no delta
\* entry; it never yields the cookie of a removal marker.
C3_IterLive ==
    /\ Items(iter(Jar)) = [c \in Live |-> 1]
    /\ \A d \in delta_cookies :
          d.removed => \A i \in 1..Len(iter(Jar)) : iter(Jar)[i] # d.cookie

\* Both collections hold both names: one name is removed, the other is an
\* original overridden by an added cookie, so iter() yields one cookie.
C3_Witness ==
    /\ Cardinality(original_cookies) = 2
    /\ Cardinality(delta_cookies) = 2
    /\ \E d \in delta_cookies : d.removed
    /\ \E d \in delta_cookies : ~d.removed
    /\ Len(iter(Jar)) = 1

-----------------------------------------------------------------------------
(* C4: add_original and the delta *)

\* C4: add_original(c) leaves the cookies delta() yields as they were, for
\* every cookie c, and a step that makes delta() yield a cookie it did not
\* yield before is an add or a remove.
C4_AddOriginalKeepsDelta ==
    [][ /\ (\E c \in ClientCookies : AddOriginal(c))
            => Items(delta(Jar))' = Items(delta(Jar))
        /\ (\E c \in DOMAIN Items(delta(Jar))' : c \notin DOMAIN Items(delta(Jar)))
            => last'.op \in {"add", "remove"} ]_vars

\* add_original has just stored a cookie whose name has no delta entry, while
\* the delta holds an entry of another name.
C4_Witness ==
    /\ last.op = "add_original"
    /\ added(Unwrap(last.cookie)) \in original_cookies
    /\ ~HashContains(delta_cookies, last.name)
    /\ delta_cookies # {}

-----------------------------------------------------------------------------
(* C5: remove of a name that original_cookies holds *)

\* C5: when original_cookies holds the name of c, remove(c) leaves exactly one
\* delta entry of that name: marked removed, with the name of c, an empty
\* value, max-age 0, an expiry one year before the time of the call and the
\* path and domain of c; then get(name) is None, iter() yields no cookie of
\* that name and delta() yields the removal cookie.
C5_RemoveOriginal ==
    \A c \in RemovalCookies :
        HashContains(original_cookies, c.name) =>
            LET j == remove(Jar, c, now)
                D == Named(j.delta_cookies, c.name)
            IN  /\ Cardinality(D) = 1
                /\ \A d \in D :
                      /\ d.removed
                      /\ d.cookie.name = c.name
                      /\ d.cookie.value = ""
                      /\ d.cookie.max_age = Some(DurationZero)
                      /\ d.cookie.expires = Some(DateTime(now - OneYear))
                      /\ d.cookie.path = c.path
                      /\ d.cookie.domain = c.domain
                      /\ CountNamed(delta(j), c.name) = 1
                      /\ d.cookie \in DOMAIN Items(delta(j))
                /\ get(j, c.name) = None
                /\ CountNamed(iter(j), c.name) = 0

\* remove has just been called with a cookie that has a path and a domain, on
\* a name whose original has neither and that had been added before; the
\* delta holds the removal marker with that path.
C5_Witness ==
    /\ last.op = "remove" /\ prev.op = "add" /\ prev.name = last.name
    /\ \E o \in Named(original_cookies, last.name) : o.cookie.path = None
    /\ \E d \in Named(delta_cookies, last.name) :
          /\ d.removed
          /\ d.cookie.path = Some("/")
          /\ d.cookie.path = Unwrap(last.cookie).path
          /\ Unwrap(last.cookie).value # ""
          /\ d.cookie.value = ""

-----------------------------------------------------------------------------
(* C6: remove of a name that original_cookies does not hold *)

\* 1 when the jar's delta_cookies holds an entry of the name n, else 0
DeltaHolds(self, n) == IF HashContains(self.delta_cookies, n) THEN 1 ELSE 0

\* C6 as claimed: with no original named x, add((x,v)); remove(x) leaves no
\* delta entry of x and delta().count() is back at its value before the add.
C6_Original ==
    \A c \in Cookies, r \in RemovalCookies :
        (r.name = c.name /\ ~HashContains(original_cookies, c.name)) =>
            LET j == remove(add(Jar, c), r, now)
            IN  /\ ~HashContains(j.delta_cookies, c.name)
                /\ Len(delta(j)) = Len(delta(Jar))

\* C6: with no original named x, remove(x) deletes the delta entry of x, if
\* any, creates no removal marker and leaves the other entries alone; after
\* add((x,v)); remove(x) there is no delta entry of x, and delta().count() is
\* its value before the add when delta_cookies then held no entry of x, and
\* one less when it held one.
C6_RemoveWithoutOriginal ==
    \A r \in RemovalCookies :
        ~HashContains(original_cookies, r.name) =>
            /\ LET j == remove(Jar, r, now)
               IN  /\ j.delta_cookies = delta_cookies \ Named(delta_cookies, r.name)
                   /\ \A d \in j.delta_cookies :
                          d.cookie.name # r.name /\ d \in delta_cookies
                   /\ j.original_cookies = original_cookies
            /\ \A c \in Cookies :
                  c.name = r.name =>
                      LET j == remove(add(Jar, c), r, now)
                      IN  /\ ~HashContains(j.delta_cookies, c.name)
                          /\ CountNamed(delta(j), c.name) = 0
                          /\ Len(delta(j)) =
                                 Len(delta(Jar)) - DeltaHolds(Jar, c.name)

\* add((x,v)); remove(x) has happened with no original named x: the delta
\* holds no entry of x, and still holds the entry of the other name.
C6_Witness ==
    /\ prev.op = "add" /\ last.op = "remove" /\ prev.name = last.name
    /\ ~HashContains(original_cookies, last.name)
    /\ ~HashContains(delta_cookies, last.name)
    /\ Len(delta(Jar)) = 1

-----------------------------------------------------------------------------
(* C7: remove twice *)

\* The yielded cookies with their expiry left out
WithoutExpires(seq) == [i \in 1..Len(seq) |-> [seq[i] EXCEPT !.expires = None]]

\* C7 as claimed: when the last call was remove(c), another remove(c) leaves
\* the cookies delta() yields exactly as they were.
C7_Original ==
    [][ \A c \in RemovalCookies :
            (last = Call("remove", c.name, Some(c)) /\ Remove(c))
                => Items(delta(Jar))' = Items(delta(Jar)) ]_vars

\* C7: when the last call was remove(c), another remove(c) leaves the cookies
\* delta() yields as they were up to the expiry of the removal cookie, which
\* is one year before the time of the second call (so nothing changes at all
\* when the clock reads the same at both calls).
C7_RemoveTwice ==
    [][ \A c \in RemovalCookies :
            (last = Call("remove", c.name, Some(c)) /\ Remove(c))
                => /\ Items(WithoutExpires(delta(Jar)))'
                          = Items(WithoutExpires(delta(Jar)))
                   /\ \A d \in Named(delta_cookies, c.name)' :
                          /\ d.removed
                          /\ d.cookie.expires = Some(DateTime(now - OneYear))
                   /\ \A d \in delta_cookies' :
                          d.cookie.name # c.name => d \in delta_cookies ]_vars

\* The same remove has been called twice in a row, the second time after the
\* clock moved on, on a name that original_cookies holds; the delta holds one
\* removal marker for it.
C7_Witness ==
    /\ last.op = "remove" /\ prev = last
    /\ now > 0
    /\ HashContains(original_cookies, last.name)
    /\ \E d \in Named(delta_cookies, last.name) :
          d.removed /\ d.cookie.expires = Some(DateTime(now - OneYear))
    /\ CountNamed(delta(Jar), last.name) = 1

-----------------------------------------------------------------------------
(* C8: force_remove *)

\* C8: whatever the jar holds for the name n, force_remove(n) leaves neither
\* collection with an entry of n and adds no delta entry; then get(n) is None
\* and neither delta() nor iter() yields a cookie named n.
C8_ForceRemove ==
    \A n \in Names :
        LET j == force_remove(Jar, n)
        IN  /\ Named(j.original_cookies, n) = {}
            /\ Named(j.delta_cookies, n) = {}
            /\ j.delta_cookies \subseteq delta_cookies
            /\ get(j, n) = None
            /\ CountNamed(delta(j), n) = 0
            /\ CountNamed(iter(j), n) = 0

\* force_remove(n) has been called right after remove(n); the other name is
\* still in both collections and n is in neither.
C8_Witness ==
    /\ last.op = "force_remove" /\ prev.op = "remove" /\ prev.name = last.name
    /\ original_cookies # {} /\ delta_cookies # {}
    /\ ~HashContains(original_cookies, last.name)
    /\ ~HashContains(delta_cookies, last.name)
    /\ get(Jar, last.name) = None

-----------------------------------------------------------------------------
(* C9: reset_delta *)

\* C9: after reset_delta, delta() is empty, original_cookies is what it was,
\* get(n) is the original of n (None if there is none) for every name n, and
\* iter() yields exactly the originals.
C9_ResetDelta ==
    LET j == reset_delta(Jar)
    IN  /\ delta(j) = <<>>
        /\ j.original_cookies = original_cookies
        /\ \A n \in Names :
              /\ \A o \in Named(original_cookies, n) : get(j, n) = Some(o.cookie)
              /\ Named(original_cookies, n) = {} => get(j, n) = None
        /\ Items(iter(j)) = [c \in { o.cookie : o \in original_cookies } |-> 1]

\* reset_delta has been called right after a remove of a name that
\* original_cookies holds: the original is visible again.
C9_Witness ==
    /\ last.op = "reset_delta" /\ prev.op = "remove"
    /\ delta_cookies = {}
    /\ \E o \in Named(original_cookies, prev.name) :
          get(Jar, prev.name) = Some(o.cookie)
    /\ Len(iter(Jar)) = 2

-----------------------------------------------------------------------------
(* C10: precedence of add and remove over add_original *)

\* C10: when delta_cookies holds an entry of the name of c (an added cookie
\* or a removal marker), add_original(c) changes neither get(c.name) nor the
\* cookies delta() yields.
C10_DeltaPrecedence ==
    \A c \in ClientCookies :
        HashContains(delta_cookies, c.name) =>
            LET j == add_original(Jar, c)
            IN  /\ get(j, c.name) = get(Jar, c.name)
                /\ Items(delta(j)) = Items(delta(Jar))
                /\ \A d \in Named(delta_cookies, c.name) :
                      /\ d.removed => get(j, c.name) = None
                      /\ ~d.removed => get(j, c.name) = Some(d.cookie)

\* add_original(n) has been called right after remove(n): the original is
\* stored, the removal marker is still in the delta and get(n) is None.
C10_Witness ==
    /\ last.op = "add_original" /\ prev.op = "remove" /\ prev.name = last.name
    /\ added(Unwrap(last.cookie)) \in original_cookies
    /\ \E d \in Named(delta_cookies, last.name) : d.removed
    /\ get(Jar, last.name) = None

-----------------------------------------------------------------------------
(* Strings (str): a string is a sequence of characters; its length and the  *)
(* positions split_at takes are counted in UTF-8 bytes.                     *)

\* Stands for a character whose UTF-8 encoding takes two bytes (U+00E9, say);
\* every other character of the model is ASCII and takes one.
Wide == "^"

\* char::len_utf8
len_utf8(ch) == IF ch = Wide THEN 2 ELSE 1

\* str::len: the length in bytes
RECURSIVE StrLen(_)
StrLen(s) == IF s = "" THEN 0 ELSE len_utf8(SubSeq(s, 1, 1)) + StrLen(Tail(s))

\* str::is_char_boundary
is_char_boundary(s, mid) == \E k \in 0..Len(s) : StrLen(SubSeq(s, 1, k)) = mid

\* str::split_at: panics when mid is past the end or inside a character
split_at(s, mid) ==
    IF ~is_char_boundary(s, mid)
    THEN [panic |-> TRUE]
    ELSE LET k == CHOOSE i \in 0..Len(s) : StrLen(SubSeq(s, 1, i)) = mid
         IN  [panic |-> FALSE, left |-> SubSeq(s, 1, k),
              right |-> SubSeq(s, k + 1, Len(s))]

\* str::starts_with
starts_with(s, prefix) ==
    Len(s) >= Len(prefix) /\ SubSeq(s, 1, Len(prefix)) = prefix

\* The string s filled up with '=' to n characters
RECURSIVE PadTo(_, _)
PadTo(s, n) == IF Len(s) >= n THEN s ELSE PadTo(s \o "=", n)

\* Result<T, E> and the outcome of a call that may panic
Ok(v) == [tag |-> "Ok", value |-> v]
Err(e) == [tag |-> "Err", error |-> e]
Return(v) == [tag |-> "Return", value |-> v]
Panic == [tag |-> "Panic"]

-----------------------------------------------------------------------------
(* The primitives the secure jars call, as ideal functions: a tag or a      *)
(* sealed box determines the key and the text it was made from, and no      *)
(* other text decodes to it.                                                *)

\* pub(crate) const BASE64_DIGEST_LEN (signed.rs)
BASE64_DIGEST_LEN == 44

\* const BASE64_NONCE_LEN (private.rs)
BASE64_NONCE_LEN == 16

\* The keys a jar can be made with (Key.signing / the &[u8] of private())
Keys == {"k1", "k2", "k3"}

\* The nonces SystemRandom can fill in
Nonces == {"r1", "r2"}

\* The values callers store through the secure jars
PlainValues == {"", "v"}

\* Hmac::<Sha256>::new_varkey(key), update(msg), finalize()
Hmac(key, msg) == [key |-> key, msg |-> msg]

\* Mac::verify
MacVerify(key, msg, digest) == digest = Hmac(key, msg)

\* base64::encode of a digest: BASE64_DIGEST_LEN characters
Base64Digest(digest) ==
    PadTo("h" \o digest.key \o "+" \o digest.msg, BASE64_DIGEST_LEN)

\* base64::decode of the digest part
Base64DecodeDigest(s) ==
    IF \E k \in Keys, m \in PlainValues : Base64Digest(Hmac(k, m)) = s
    THEN Ok(CHOOSE d \in { Hmac(k, m) : k \in Keys, m \in PlainValues } :
                Base64Digest(d) = s)
    ELSE Err("bad base64 digest")

\* seal_in_place(key, nonce, value): the sealed box
Seal(key, nonce, value) == [key |-> key, nonce |-> nonce, value |-> value]

\* open_in_place(key, nonce, sealed)
Open(key, nonce, sealed) ==
    IF sealed.key = key /\ sealed.nonce = nonce
    THEN Ok(sealed.value)
    ELSE Err("invalid key/nonce/value: bad seal")

\* nonce.to_base64(STANDARD): BASE64_NONCE_LEN characters
Base64Nonce(nonce) == PadTo("n" \o nonce, BASE64_NONCE_LEN)

\* nonce_s.from_base64()
Base64DecodeNonce(s) ==
    IF \E r \in Nonces : Base64Nonce(r) = s
    THEN Ok(CHOOSE r \in Nonces : Base64Nonce(r) = s)
    ELSE Err("bad nonce base64")

\* sealed_output.to_base64(STANDARD)
Base64Sealed(sealed) ==
    "s" \o sealed.key \o "+" \o sealed.nonce \o "+" \o sealed.value \o "=="

\* sealed_s.from_base64()
Base64DecodeSealed(s) ==
    LET boxes == { Seal(k, r, v) : k \in Keys, r \in Nonces, v \in PlainValues }
    IN  IF \E b \in boxes : Base64Sealed(b) = s
        THEN Ok(CHOOSE b \in boxes : Base64Sealed(b) = s)
        ELSE Err("bad sealed base64")

-----------------------------------------------------------------------------
(* SignedJar (src/secure/signed.rs); the parent jar is passed to each call *)

\* SignedJar::new
SignedJar(key) == [key |-> key, rotated_keys |-> <<>>]

\* SignedJar::new_rotatable
new_rotatable(keys) == [key |-> keys[1], rotated_keys |-> Tail(keys)]

\* A sign_cookie that stores the value as it is
sign_cookie_plain(self, cookie) == cookie

\* SignedJar::sign_cookie
sign_cookie(self, cookie) ==
    set_value(cookie, Base64Digest(Hmac(self.key, cookie.value)) \o cookie.value)

\* A verify that tries the primary key only
verify_primaryOnly(self, cookie_value) ==
    IF StrLen(cookie_value) < BASE64_DIGEST_LEN
    THEN Err("length of value is <= BASE64_DIGEST_LEN")
    ELSE LET parts == split_at(cookie_value, BASE64_DIGEST_LEN)
         IN  IF parts.panic THEN Panic
             ELSE LET digest == Base64DecodeDigest(parts.left)
                  IN  IF digest.tag = "Err" THEN Err("bad base64 digest")
                      ELSE IF MacVerify(self.key, parts.right, digest.value)
                      THEN Ok(parts.right)
                      ELSE Err("value did not verify")

\* SignedJar::verify
verify(self, cookie_value) ==
    IF StrLen(cookie_value) < BASE64_DIGEST_LEN
    THEN Err("length of value is <= BASE64_DIGEST_LEN")
    ELSE LET parts == split_at(cookie_value, BASE64_DIGEST_LEN)
         IN  IF parts.panic THEN Panic
             ELSE LET digest == Base64DecodeDigest(parts.left)
                  IN  IF digest.tag = "Err" THEN Err("bad base64 digest")
                      ELSE IF MacVerify(self.key, parts.right, digest.value)
                      THEN Ok(parts.right)
                      ELSE IF \E i \in 1..Len(self.rotated_keys) :
                                  MacVerify(self.rotated_keys[i], parts.right,
                                            digest.value)
                      THEN Ok(parts.right)
                      ELSE Err("value did not verify")

\* SignedJar::get
signed_get(self, parent, name) ==
    LET cookie_ref == get(parent, name)
    IN  IF IsSome(cookie_ref)
        THEN LET cookie == Unwrap(cookie_ref)
                 value == verify(self, cookie.value)
             IN  IF value.tag = "Panic" THEN Panic
                 ELSE IF value.tag = "Ok"
                 THEN Return(Some(set_value(cookie, value.value)))
                 ELSE Return(None)
        ELSE Return(None)

\* SignedJar::add
signed_add(self, parent, cookie) == add(parent, sign_cookie(self, cookie))

\* SignedJar::add_original
signed_add_original(self, parent, cookie) ==
    add_original(parent, sign_cookie(self, cookie))

\* SignedJar::remove, called when the clock reads t
signed_remove(self, parent, cookie, t) == remove(parent, cookie, t)

-----------------------------------------------------------------------------
(* PrivateJar (src/secure/private.rs) *)

\* Private::private
PrivateJar(key) == [key |-> key]

\* PrivateJar::unseal
unseal(self, value) ==
    LET parts == split_at(value, BASE64_NONCE_LEN)
    IN  IF parts.panic THEN Panic
        ELSE LET nonce == Base64DecodeNonce(parts.left)
                 sealed == Base64DecodeSealed(parts.right)
             IN  IF nonce.tag = "Err" THEN nonce
                 ELSE IF sealed.tag = "Err" THEN sealed
                 ELSE Open(self.key, nonce.value, sealed.value)

\* PrivateJar::get
private_get(self, parent, name) ==
    LET cookie_ref == get(parent, name)
    IN  IF IsSome(cookie_ref)
        THEN LET cookie == Unwrap(cookie_ref)
             IN  IF StrLen(cookie.value) <= BASE64_NONCE_LEN
                 THEN Return(None)
                 ELSE LET value == unseal(self, cookie.value)
                      IN  IF value.tag = "Panic" THEN Panic
                          ELSE IF value.tag = "Ok"
                          THEN Return(Some(set_value(cookie, value.value)))
                          ELSE Return(None)
        ELSE Return(None)

\* PrivateJar::add, with the nonce SystemRandom filled in
private_add(self, parent, cookie, nonce) ==
    add(parent,
        set_value(cookie,
                  Base64Nonce(nonce)
                      \o Base64Sealed(Seal(self.key, nonce, cookie.value))))

\* PrivateJar::remove, called when the clock reads t
private_remove(self, parent, cookie, t) == remove(parent, cookie, t)

-----------------------------------------------------------------------------
(* Prefix and PrefixedJar (src/prefix.rs); P is "Host" or "Secure" *)

Prefixes == {"Host", "Secure"}

\* const PREFIX
PREFIX(P) == IF P = "Host" THEN "__Host-" ELSE "__Secure-"

\* Cookie::set_secure
set_secure(c, value) == [c EXCEPT !.secure = value]

\* Cookie::unset_domain
unset_domain(c) == [c EXCEPT !.domain = None]

\* A conform that leaves the cookie as the caller built it
conform_nothing(P, cookie) == cookie

\* impl Prefix for Host / impl Prefix for Secure: conform
conform(P, cookie) ==
    IF P = "Host"
    THEN unset_domain(set_path(set_secure(cookie, Some(TRUE)), "/"))
    ELSE set_secure(cookie, Some(TRUE))

\* Prefix::prefixed_name
prefixed_name(P, name) == PREFIX(P) \o name

\* Prefix::prefix
prefix(P, cookie) == [cookie EXCEPT !.name = prefixed_name(P, cookie.name)]

\* A clip that returns the cookie under its stored name
clip_nothing(P, cookie) == cookie

\* Prefix::clip
clip(P, cookie) ==
    IF ~starts_with(cookie.name, PREFIX(P))
    THEN cookie
    ELSE [cookie EXCEPT !.name = SubSeq(@, Len(PREFIX(P)) + 1, Len(@))]

\* Prefix::apply
apply(P, cookie) == conform(P, prefix(P, cookie))

\* PrefixedJar::get
prefixed_get(P, parent, name) ==
    LET c == get(parent, prefixed_name(P, name))
    IN  IF IsSome(c) THEN Some(clip(P, Unwrap(c))) ELSE None

\* PrefixedJar::add
prefixed_add(P, parent, cookie) == add(parent, apply(P, cookie))

\* PrefixedJar::add_original
prefixed_add_original(P, parent, cookie) == add_original(parent, apply(P, cookie))

\* A remove that looks for the unprefixed name
prefixed_remove_unprefixed(P, parent, cookie, t) == remove(parent, cookie, t)

\* PrefixedJar::remove, called when the clock reads t
prefixed_remove(P, parent, cookie, t) == remove(parent, apply(P, cookie), t)

-----------------------------------------------------------------------------
(* A jar used through its child jars *)

\* The name the child jars are called with
ChildName == "n"

\* jar.signed(&key) for a list of one key, SignedJar::new_rotatable for
\* [new, old, ...]
Signed(ring) == IF Len(ring) = 1 THEN SignedJar(ring[1]) ELSE new_rotatable(ring)

\* The cookies passed to the secure jars
SecureCookies == { CookieNew(ChildName, v) : v \in PlainValues }

\* The cookies passed to the prefixed jars
PrefixedCookies == { BuildCookie(ChildName, "v", pd) : pd \in PathDomains }

\* The record of a call on a child jar: child is the key list, the key or
\* the prefix the child jar was made with
ChildCall(op, child, cookie) ==
    [op |-> op, name |-> cookie.name, cookie |-> Some(cookie), child |-> child]

SignedAdd(ring, cookie) ==
    LET jar == signed_add(Signed(ring), Jar, cookie)
    IN  /\ original_cookies' = jar.original_cookies
        /\ delta_cookies' = jar.delta_cookies
        /\ last' = ChildCall("signed.add", ring, cookie)
        /\ UNCHANGED <<now, prev>>

SignedAddOriginal(ring, cookie) ==
    LET jar == signed_add_original(Signed(ring), Jar, cookie)
    IN  /\ original_cookies' = jar.original_cookies
        /\ delta_cookies' = jar.delta_cookies
        /\ last' = ChildCall("signed.add_original", ring, cookie)
        /\ UNCHANGED <<now, prev>>

SignedRemove(ring, cookie) ==
    LET jar == signed_remove(Signed(ring), Jar, cookie, now)
    IN  /\ original_cookies' = jar.original_cookies
        /\ delta_cookies' = jar.delta_cookies
        /\ last' = ChildCall("signed.remove", ring, cookie)
        /\ UNCHANGED <<now, prev>>

PrivateAdd(key, nonce, cookie) ==
    LET jar == private_add(PrivateJar(key), Jar, cookie, nonce)
    IN  /\ original_cookies' = jar.original_cookies
        /\ delta_cookies' = jar.delta_cookies
        /\ last' = ChildCall("private.add", key, cookie)
        /\ UNCHANGED <<now, prev>>

PrivateRemove(key, cookie) ==
    LET jar == private_remove(PrivateJar(key), Jar, cookie, now)
    IN  /\ original_cookies' = jar.original_cookies
        /\ delta_cookies' = jar.delta_cookies
        /\ last' = ChildCall("private.remove", key, cookie)
        /\ UNCHANGED <<now, prev>>

PrefixedAdd(P, cookie) ==
    LET jar == prefixed_add(P, Jar, cookie)
    IN  /\ original_cookies' = jar.original_cookies
        /\ delta_cookies' = jar.delta_cookies
        /\ last' = ChildCall("prefixed.add", P, cookie)
        /\ UNCHANGED <<now, prev>>

PrefixedAddOriginal(P, cookie) ==
    LET jar == prefixed_add_original(P, Jar, cookie)
    IN  /\ original_cookies' = jar.original_cookies
        /\ delta_cookies' = jar.delta_cookies
        /\ last' = ChildCall("prefixed.add_original", P, cookie)
        /\ UNCHANGED <<now, prev>>

PrefixedRemove(P, cookie) ==
    LET jar == prefixed_remove(P, Jar, cookie, now)
    IN  /\ original_cookies' = jar.original_cookies
        /\ delta_cookies' = jar.delta_cookies
        /\ last' = ChildCall("prefixed.remove", P, cookie)
        /\ UNCHANGED <<now, prev>>

\* CookieJar::add on the parent, by the owner of the jar or with what a
\* client sent back
ParentAdd(cookie) ==
    LET jar == add(Jar, cookie)
    IN  /\ original_cookies' = jar.original_cookies
        /\ delta_cookies' = jar.delta_cookies
        /\ last' = Call("add", cookie.name, Some(cookie))
        /\ UNCHANGED <<now, prev>>

\* One signed, one private and the two prefixed jars over one parent
ChildNext ==
    \/ SignedAdd(<<"k1">>, CookieNew(ChildName, "v"))
    \/ SignedAddOriginal(<<"k1">>, CookieNew(ChildName, "v"))
    \/ SignedRemove(<<"k1">>, CookieNew(ChildName, "v"))
    \/ PrivateAdd("k1", "r1", CookieNew(ChildName, "v"))
    \/ PrivateRemove("k1", CookieNew(ChildName, "v"))
    \/ \E P \in Prefixes, cookie \in PrefixedCookies : PrefixedAdd(P, cookie)
    \/ \E P \in Prefixes, cookie \in PrefixedCookies : PrefixedAddOriginal(P, cookie)
    \/ \E P \in Prefixes, cookie \in PrefixedCookies : PrefixedRemove(P, cookie)
    \/ ParentAdd(CookieNew(ChildName, "v"))

SpecChild == Init /\ [][ChildNext]_vars

-----------------------------------------------------------------------------
(* A jar used through signed and private jars, with a client that sends
   back what it likes *)

\* The key lists the signed jars are made with
KeyRings == { <<"k1">>, <<"k2">>, <<"k1", "k2">> }

\* The keys the private jars are made with
PrivateKeys == {"k1", "k2"}

\* A value of 15 bytes followed by a two-byte character
WideAt16 == PadTo("x", BASE64_NONCE_LEN - 1) \o Wide

\* A value of 43 bytes followed by a two-byte character
WideAt44 == PadTo("x", BASE64_DIGEST_LEN - 1) \o Wide

\* Plain strings a client can send
Forged == {"foobar", WideAt16, WideAt44}

\* The ways a client changes the cookie it sends back: a character
\* appended to the stored value, or a plain string in its place
Tampers == {"append"} \cup Forged

ends_with(s, suffix) ==
    Len(s) >= Len(suffix) /\ SubSeq(s, Len(s) - Len(suffix) + 1, Len(s)) = suffix

\* The value a client sends back in place of the stored value
TamperedValue(value, how) == IF how = "append" THEN value \o "l" ELSE how

\* The client sends the cookie of the secure jars back with a changed
\* value and the owner adds it to the parent (an appended character once)
Tamper(how) ==
    LET stored == get(Jar, ChildName)
        cookie == set_value(Unwrap(stored), TamperedValue(Unwrap(stored).value, how))
        jar == add(Jar, cookie)
    IN  /\ IsSome(stored)
        /\ how = "append" =>
              /\ Unwrap(stored).value \notin Forged
              /\ ~ends_with(Unwrap(stored).value, "l")
        /\ original_cookies' = jar.original_cookies
        /\ delta_cookies' = jar.delta_cookies
        /\ last' = [op |-> "tamper", name |-> ChildName, cookie |-> Some(cookie),
                    stored |-> Unwrap(stored)]
        /\ UNCHANGED <<now, prev>>

SecureNext ==
    \/ \E ring \in KeyRings, cookie \in SecureCookies : SignedAdd(ring, cookie)
    \/ \E ring \in KeyRings, cookie \in SecureCookies : SignedAddOriginal(ring, cookie)
    \/ \E ring \in KeyRings, cookie \in SecureCookies : SignedRemove(ring, cookie)
    \/ \E key \in PrivateKeys, nonce \in Nonces, cookie \in SecureCookies :
          PrivateAdd(key, nonce, cookie)
    \/ \E key \in PrivateKeys, cookie \in SecureCookies : PrivateRemove(key, cookie)
    \/ \E how \in Tampers : Tamper(how)

SpecSecure == Init /\ [][SecureNext]_vars

-----------------------------------------------------------------------------
(* C11: child jars hold no state *)

\* The name under which the parent stores the cookie of a child call
StoredName(call) ==
    IF call.op \in {"prefixed.add", "prefixed.add_original", "prefixed.remove"}
    THEN prefixed_name(call.child, call.name)
    ELSE call.name

\* The cookies named n that a parent's remove can be called with
RemovalsNamed(n) ==
    { [BuildCookie(n, "v", pd) EXCEPT !.secure = sec] :
          pd \in PathDomains \cup { <<Some("/"), None>> },
          sec \in {None, Some(TRUE)} }

\* C11: a child jar writes straight into its parent. An add through a signed,
\* private or prefixed child leaves exactly one entry of the stored name in
\* the parent's delta_cookies, counted once by iter() and by delta(), and
\* touches nothing else; a child's add_original leaves one entry of the
\* stored name in the parent's original_cookies and delta() as it was; a
\* child's remove is the parent's remove for the (prefixed) name.
C11_ChildJarsHoldNoState ==
    [][ LET s == StoredName(last')
            after == CookieJar(original_cookies', delta_cookies')
        IN  /\ last'.op \in {"signed.add", "private.add", "prefixed.add"} =>
                  /\ Cardinality(Named(delta_cookies', s)) = 1
                  /\ \A d \in Named(delta_cookies', s) : ~d.removed
                  /\ CountNamed(iter(after), s) = 1
                  /\ CountNamed(delta(after), s) = 1
                  /\ delta_cookies' \ Named(delta_cookies', s)
                         = delta_cookies \ Named(delta_cookies, s)
                  /\ original_cookies' = original_cookies
            /\ last'.op \in {"signed.add_original", "prefixed.add_original"} =>
                  /\ Cardinality(Named(original_cookies', s)) = 1
                  /\ original_cookies' \ Named(original_cookies', s)
                         = original_cookies \ Named(original_cookies, s)
                  /\ delta_cookies' = delta_cookies
                  /\ Items(delta(after)) = Items(delta(Jar))
            /\ last'.op \in {"signed.remove", "private.remove", "prefixed.remove"} =>
                  /\ \E c \in RemovalsNamed(s) : after = remove(Jar, c, now)
                  /\ get(after, s) = None
                  /\ CountNamed(iter(after), s) = 0
                  /\ original_cookies' = original_cookies ]_vars

\* A remove through the Host jar has just marked the original "__Host-n"
\* removed, in a parent that also holds a signed or sealed cookie "n" and a
\* cookie "__Secure-n" added through the Secure jar.
C11_Witness ==
    /\ last.op = "prefixed.remove" /\ last.child = "Host"
    /\ \E o \in Named(original_cookies, "__Host-n") : o.cookie.secure = Some(TRUE)
    /\ \E d \in Named(delta_cookies, "__Host-n") : d.removed
    /\ \E d \in Named(delta_cookies, "n") : ~d.removed /\ d.cookie.value # "v"
    /\ \E d \in Named(delta_cookies, "__Secure-n") : ~d.removed
    /\ get(Jar, "__Host-n") = None

-----------------------------------------------------------------------------
(* C12: round trip through the secure jars *)

\* C12: for every cookie (name, v), the empty value included, and every key,
\* get through the child jar that added it returns the value v, while get on
\* the parent returns a stored value different from v: the 44 characters of
\* the base64 tag followed by v for a signed jar, the 16 characters of the
\* base64 nonce followed by the base64 ciphertext for a private jar, whatever
\* the nonce.
C12_SecureRoundTrip ==
    \A cookie \in SecureCookies :
        /\ \A ring \in KeyRings \cup { <<"k3">> } :
              LET self == Signed(ring)
                  parent == signed_add(self, Jar, cookie)
                  stored == get(parent, cookie.name)
              IN  /\ signed_get(self, parent, cookie.name) = Return(Some(cookie))
                  /\ IsSome(stored)
                  /\ Unwrap(stored).value # cookie.value
                  /\ Len(Unwrap(stored).value) = BASE64_DIGEST_LEN + Len(cookie.value)
                  /\ Base64DecodeDigest(SubSeq(Unwrap(stored).value, 1, BASE64_DIGEST_LEN))
                         = Ok(Hmac(ring[1], cookie.value))
                  /\ ends_with(Unwrap(stored).value, cookie.value)
        /\ \A key \in Keys, nonce \in Nonces :
              LET self == PrivateJar(key)
                  parent == private_add(self, Jar, cookie, nonce)
                  stored == get(parent, cookie.name)
              IN  /\ private_get(self, parent, cookie.name) = Return(Some(cookie))
                  /\ IsSome(stored)
                  /\ Unwrap(stored).value # cookie.value
                  /\ Base64DecodeNonce(SubSeq(Unwrap(stored).value, 1, BASE64_NONCE_LEN))
                         = Ok(nonce)
                  /\ Base64DecodeSealed(SubSeq(Unwrap(stored).value, BASE64_NONCE_LEN + 1,
                                               Len(Unwrap(stored).value)))
                         = Ok(Seal(key, nonce, cookie.value))

\* A private jar has just added a cookie with the empty value over an
\* original that a signed jar stored: the parent holds a longer value and
\* the private jar reads the empty value back.
C12_Witness ==
    /\ last.op = "private.add"
    /\ Unwrap(last.cookie).value = ""
    /\ \E o \in Named(original_cookies, ChildName) :
          Len(o.cookie.value) = BASE64_DIGEST_LEN + 1
    /\ \E d \in Named(delta_cookies, ChildName) :
          ~d.removed /\ Len(d.cookie.value) > BASE64_NONCE_LEN
    /\ private_get(PrivateJar(last.child), Jar, ChildName) = Return(last.cookie)

-----------------------------------------------------------------------------
(* C13: tamper detection *)

\* C13 as claimed: after the value that a signed or private jar stored has
\* been replaced in the parent by a different value (a character appended,
\* or a plain string), get through that child jar returns None, while the
\* parent's get returns the tampered cookie.
C13_TamperDetected ==
    (last.op = "tamper" /\ Unwrap(last.cookie).value # last.stored.value) =>
        /\ get(Jar, ChildName) = last.cookie
        /\ \A ring \in KeyRings, cookie \in SecureCookies :
              sign_cookie(Signed(ring), cookie) = last.stored =>
                  signed_get(Signed(ring), Jar, ChildName) = Return(None)
        /\ \A key \in PrivateKeys, nonce \in Nonces, cookie \in SecureCookies :
              get(private_add(PrivateJar(key), new, cookie, nonce), ChildName)
                      = Some(last.stored) =>
                  private_get(PrivateJar(key), Jar, ChildName) = Return(None)

-----------------------------------------------------------------------------
(* C14: get through a secure jar never aborts *)

\* C14: SignedJar::get and PrivateJar::get end by returning Some or None for
\* every parent jar, name and key: a stored value that is too short, is not
\* base64 or fails verification gives None, never an abort.
C14_GetNeverAborts ==
    \A name \in {ChildName, "__Host-n", "__Secure-n"} :
        /\ \A ring \in KeyRings :
              signed_get(Signed(ring), Jar, name).tag = "Return"
        /\ \A key \in Keys :
              private_get(PrivateJar(key), Jar, name).tag = "Return"

-----------------------------------------------------------------------------
(* C15: rotation of signing keys *)

\* C15: a signed jar made with the keys [k_new, k_old] reads the values signed
\* by k_new and those signed by k_old, returns None for a value signed by a key
\* outside the list, and signs with k_new only: what it stores is what the jar
\* of k_new alone stores, and the jar of k_old alone does not accept it.
C15_SignedRotation ==
    \A k_new \in Keys : \A k_old \in Keys \ {k_new}, cookie \in SecureCookies :
        LET self == new_rotatable(<<k_new, k_old>>)
            name == cookie.name
        IN  /\ signed_get(self, signed_add(SignedJar(k_new), Jar, cookie), name)
                   = Return(Some(cookie))
            /\ signed_get(self, signed_add(SignedJar(k_old), Jar, cookie), name)
                   = Return(Some(cookie))
            /\ \A other \in Keys \ {k_new, k_old} :
                  signed_get(self, signed_add(SignedJar(other), Jar, cookie), name)
                      = Return(None)
            /\ signed_add(self, Jar, cookie) = signed_add(SignedJar(k_new), Jar, cookie)
            /\ signed_get(SignedJar(k_old), signed_add(self, Jar, cookie), name)
                   = Return(None)

\* The jar of the key k2 alone has just signed a cookie: the jar of [k1, k2]
\* reads it back and the jar of k1 alone does not.
C15_Witness ==
    /\ last.op = "signed.add" /\ last.child = <<"k2">>
    /\ signed_get(new_rotatable(<<"k1", "k2">>), Jar, ChildName) = Return(last.cookie)
    /\ signed_get(SignedJar("k1"), Jar, ChildName) = Return(None)

-----------------------------------------------------------------------------
(* C16: rotation of private keys *)

\* C16: a private jar whose primary key is k_new and whose older key is k_old
\* reads the values sealed by k_old as well as those sealed by k_new.
C16_PrivateRotation ==
    \A k_new \in PrivateKeys, k_old \in PrivateKeys, cookie \in SecureCookies,
       nonce \in Nonces :
        private_get(PrivateJar(k_new),
                    private_add(PrivateJar(k_old), Jar, cookie, nonce), cookie.name)
            = Return(Some(cookie))

-----------------------------------------------------------------------------
(* C17: round trip and isolation of the prefixed jars *)

\* The other prefix
OtherPrefix(P) == IF P = "Host" THEN "Secure" ELSE "Host"

\* C17 as claimed: after an add of a cookie named n through the jar of the
\* prefix P the parent holds it under PREFIX ++ n and has no cookie named n,
\* the jar of P returns it with the name n and the same value, and the jar of
\* the other prefix returns None for n; after a remove of n through the jar
\* of P, the jar of P returns None for n.
C17_Original ==
    /\ last.op = "prefixed.add" =>
          LET P == last.child
              n == last.name
              held == get(Jar, prefixed_name(P, n))
              got == prefixed_get(P, Jar, n)
          IN  /\ IsSome(held)
              /\ Unwrap(held).value = Unwrap(last.cookie).value
              /\ get(Jar, n) = None
              /\ IsSome(got)
              /\ Unwrap(got).name = n
              /\ Unwrap(got).value = Unwrap(last.cookie).value
              /\ prefixed_get(OtherPrefix(P), Jar, n) = None
    /\ last.op = "prefixed.remove" => prefixed_get(last.child, Jar, last.name) = None

\* C17: an add of a cookie named n through the jar of the prefix P stores it
\* in the parent under PREFIX ++ n and leaves the parent's cookie named n and
\* what the jar of the other prefix returns for n as they were (None in a
\* jar that held neither); the jar of P returns the cookie with the name n
\* and the same value; after a remove of n through the jar of P, the jar of
\* P returns None for n.
C17_PrefixedIsolation ==
    [][ LET P == last'.child
            n == last'.name
            after == CookieJar(original_cookies', delta_cookies')
            held == get(after, prefixed_name(P, n))
            got == prefixed_get(P, after, n)
        IN  /\ last'.op = "prefixed.add" =>
                  /\ IsSome(held)
                  /\ Unwrap(held).name = PREFIX(P) \o n
                  /\ Unwrap(held).value = Unwrap(last'.cookie).value
                  /\ get(after, n) = get(Jar, n)
                  /\ IsSome(got)
                  /\ Unwrap(got).name = n
                  /\ Unwrap(got).value = Unwrap(last'.cookie).value
                  /\ prefixed_get(OtherPrefix(P), after, n)
                         = prefixed_get(OtherPrefix(P), Jar, n)
                  /\ LET fresh == prefixed_add(P, new, Unwrap(last'.cookie))
                     IN  /\ get(fresh, n) = None
                         /\ prefixed_get(OtherPrefix(P), fresh, n) = None
                         /\ get(fresh, prefixed_name(P, n)) = held
            /\ last'.op = "prefixed.remove" => got = None ]_vars

\* A cookie named n has just been added through the Host jar to a parent
\* that holds a cookie named n of its own and one added through the Secure
\* jar: all three are there, each under its own name.
C17_Witness ==
    /\ last.op = "prefixed.add" /\ last.child = "Host"
    /\ IsSome(get(Jar, "n"))
    /\ IsSome(get(Jar, "__Host-n"))
    /\ IsSome(prefixed_get("Secure", Jar, "n"))
    /\ Unwrap(prefixed_get("Host", Jar, "n")).name = "n"

-----------------------------------------------------------------------------
(* C18: conform *)

\* Cookies with every attribute that conform reads or writes, and others
ConformInputs ==
    { [BuildCookie(ChildName, "v", pd) EXCEPT !.secure = sec, !.max_age = age,
                                              !.http_only = ho] :
          pd \in PathDomains \cup { <<Some("/p"), None>>, <<None, Some("example.com")>> },
          sec \in {None, Some(FALSE), Some(TRUE)},
          age \in {None, Some(DurationZero)},
          ho \in {None, Some(TRUE)} }

\* C18: a cookie stored through the Host jar has secure Some(true), the path
\* "/" and no domain; one stored through the Secure jar has secure Some(true)
\* and its path and domain as given; conform changes no other attribute.
C18_Conform ==
    /\ \A c \in ConformInputs :
          /\ conform("Host", c)
                 = [c EXCEPT !.secure = Some(TRUE), !.path = Some("/"), !.domain = None]
          /\ conform("Secure", c) = [c EXCEPT !.secure = Some(TRUE)]
          /\ \A P \in Prefixes :
                get(prefixed_add(P, Jar, c), prefixed_name(P, c.name))
                    = Some([conform(P, c) EXCEPT !.name = PREFIX(P) \o c.name])
    /\ last.op \in {"prefixed.add", "prefixed.add_original"} =>
          LET given == Unwrap(last.cookie)
              held == IF last.op = "prefixed.add" THEN delta_cookies ELSE original_cookies
          IN  \A x \in Named(held, prefixed_name(last.child, last.name)) :
                  /\ x.cookie.secure = Some(TRUE)
                  /\ last.child = "Host" =>
                        x.cookie.path = Some("/") /\ x.cookie.domain = None
                  /\ last.child = "Secure" =>
                        x.cookie.path = given.path /\ x.cookie.domain = given.domain
                  /\ [x.cookie EXCEPT !.name = given.name, !.secure = given.secure,
                                      !.path = given.path, !.domain = given.domain]
                         = given

\* A cookie with a domain and no secure flag has just been stored through
\* the Host jar: the parent holds it secure, with the path "/" and no domain.
C18_Witness ==
    /\ last.op = "prefixed.add" /\ last.child = "Host"
    /\ Unwrap(last.cookie).domain = Some("example.com")
    /\ Unwrap(last.cookie).secure = None
    /\ \E d \in Named(delta_cookies, "__Host-n") :
          /\ d.cookie.secure = Some(TRUE)
          /\ d.cookie.path = Some("/")
          /\ d.cookie.domain = None
    /\ \E d \in Named(delta_cookies, "__Secure-n") :
          d.cookie.secure = Some(TRUE) /\ d.cookie.domain = Some("example.com")

-----------------------------------------------------------------------------
(* Parsing (src/parse.rs); strings here are ASCII, so a character is a byte *)

\* char::is_whitespace
is_whitespace(ch) == ch \in {" ", "\t", "\n", "\r"}

\* str::trim_start
RECURSIVE trim_start(_)
trim_start(s) ==
    IF s # "" /\ is_whitespace(SubSeq(s, 1, 1)) THEN trim_start(Tail(s)) ELSE s

\* str::trim_end
RECURSIVE trim_end(_)
trim_end(s) ==
    IF s # "" /\ is_whitespace(SubSeq(s, Len(s), Len(s)))
    THEN trim_end(SubSeq(s, 1, Len(s) - 1))
    ELSE s

\* str::trim
trim(s) == trim_end(trim_start(s))

\* A find that returns the last occurrence
find_last(s, ch) ==
    LET at == { i \in 1..Len(s) : SubSeq(s, i, i) = ch }
    IN  IF at = {} THEN None
        ELSE Some((CHOOSE i \in at : \A j \in at : j <= i) - 1)

\* str::find(char): the byte offset of the first occurrence
find(s, ch) ==
    LET at == { i \in 1..Len(s) : SubSeq(s, i, i) = ch }
    IN  IF at = {} THEN None
        ELSE Some((CHOOSE i \in at : \A j \in at : i <= j) - 1)

\* str::split(char), collected
RECURSIVE split(_, _)
split(s, ch) ==
    LET i == find(s, ch)
    IN  IF IsSome(i)
        THEN <<SubSeq(s, 1, Unwrap(i))>> \o split(SubSeq(s, Unwrap(i) + 2, Len(s)), ch)
        ELSE <<s>>

UpperCase == "ABCDEFGHIJKLMNOPQRSTUVWXYZ"
LowerCase == "abcdefghijklmnopqrstuvwxyz"

\* u8::to_ascii_lowercase
char_to_ascii_lowercase(ch) ==
    LET at == { i \in 1..Len(UpperCase) : SubSeq(UpperCase, i, i) = ch }
    IN  IF at = {} THEN ch
        ELSE LET i == CHOOSE i \in at : TRUE IN SubSeq(LowerCase, i, i)

\* str::to_ascii_lowercase
RECURSIVE to_ascii_lowercase(_)
to_ascii_lowercase(s) ==
    IF s = "" THEN ""
    ELSE char_to_ascii_lowercase(SubSeq(s, 1, 1)) \o to_ascii_lowercase(Tail(s))

\* str::eq_ignore_ascii_case
eq_ignore_ascii_case(a, b) == to_ascii_lowercase(a) = to_ascii_lowercase(b)

Digits == "0123456789"

\* char::is_digit(10)
is_digit(ch) == \E i \in 1..Len(Digits) : SubSeq(Digits, i, i) = ch

\* digits.chars().all(|d| d.is_digit(10))
all_digits(s) == \A i \in 1..Len(s) : is_digit(SubSeq(s, i, i))

\* The value of a string of digits
RECURSIVE DigitsValue(_)
DigitsValue(s) ==
    IF s = "" THEN 0
    ELSE 10 * DigitsValue(SubSeq(s, 1, Len(s) - 1))
             + (CHOOSE d \in 0..9 : SubSeq(Digits, d + 1, d + 1) = SubSeq(s, Len(s), Len(s)))

\* A string of digits without its leading zeros
RECURSIVE StripZeros(_)
StripZeros(s) ==
    IF Len(s) > 1 /\ SubSeq(s, 1, 1) = "0" THEN StripZeros(Tail(s)) ELSE s

\* The digits of i64::MAX, which has 19 of them
I64_MAX_DIGITS == "9223372036854775807"

\* a <= b for two strings of digits of the same length
RECURSIVE DigitsLeq(_, _)
DigitsLeq(a, b) ==
    IF a = "" THEN TRUE
    ELSE LET x == DigitsValue(SubSeq(a, 1, 1))
             y == DigitsValue(SubSeq(b, 1, 1))
         IN  IF x # y THEN x < y ELSE DigitsLeq(Tail(a), Tail(b))

\* Duration::max_value().whole_seconds(), that is i64::MAX
DurationMaxSeconds == DurationSeconds(FALSE, I64_MAX_DIGITS)

\* str::parse::<i64>: an optional sign and at least one digit, within i64
\* (the magnitude 2^63 of i64::MIN is left out: it is treated as an overflow)
parse_i64(v) ==
    LET signed == v # "" /\ SubSeq(v, 1, 1) \in {"+", "-"}
        negative == v # "" /\ SubSeq(v, 1, 1) = "-"
        body == IF signed THEN Tail(v) ELSE v
        digits == StripZeros(body)
    IN  IF body = "" \/ ~all_digits(body) THEN Err("invalid digit")
        ELSE IF Len(digits) < Len(I64_MAX_DIGITS)
                \/ (Len(digits) = Len(I64_MAX_DIGITS) /\ DigitsLeq(digits, I64_MAX_DIGITS))
        THEN Ok(DurationSeconds(negative /\ digits # "0", digits))
        ELSE Err("number too large to fit in target type")

\* cmp::min on two positive numbers of seconds
MinSeconds(a, b) ==
    IF Len(a.digits) < Len(b.digits)
          \/ (Len(a.digits) = Len(b.digits) /\ DigitsLeq(a.digits, b.digits))
    THEN a
    ELSE b

\* A test that takes no value for zero or negative
NotPositive_never(val) == FALSE

\* val <= 0 for a parsed i64
NotPositive(val) == val.negative \/ val.digits = "0"

\* The date of the parser's tests and its day since the epoch
TestDate == "Wed, 21 Oct 2015 07:28:00 GMT"
TestDateDay == 16729

\* parse_gmt_date with the four formats tried in turn: the dates the model
\* knows, and an error for any other text
parse_gmt_date(v) ==
    IF v = TestDate THEN Ok(TestDateDay) ELSE Err("invalid date")

\* One turn of the loop over the attributes in parse_inner
parse_attribute(cookie, attr) ==
    LET i == find(attr, "=")
        key == IF IsSome(i) THEN trim(SubSeq(attr, 1, Unwrap(i))) ELSE trim(attr)
        value == IF IsSome(i)
                 THEN Some(trim(SubSeq(attr, Unwrap(i) + 2, Len(attr))))
                 ELSE None
        k == to_ascii_lowercase(key)
    IN  IF k = "secure" THEN [cookie EXCEPT !.secure = Some(TRUE)]
        ELSE IF k = "httponly" THEN [cookie EXCEPT !.http_only = Some(TRUE)]
        ELSE IF k = "max-age" /\ IsSome(value)
        THEN LET v == Unwrap(value)
                 parsed == parse_i64(v)
                 neg == starts_with(v, "-")
                 digits == IF neg THEN Tail(v) ELSE v
             IN  IF parsed.tag = "Ok"
                 THEN IF NotPositive(parsed.value)
                      THEN [cookie EXCEPT !.max_age = Some(DurationZero)]
                      ELSE [cookie EXCEPT !.max_age =
                               Some(MinSeconds(parsed.value, DurationMaxSeconds))]
                 ELSE IF ~all_digits(digits) THEN cookie
                 ELSE IF neg THEN [cookie EXCEPT !.max_age = Some(DurationZero)]
                 ELSE [cookie EXCEPT !.max_age = Some(DurationMaxSeconds)]
        ELSE IF k = "domain" /\ IsSome(value) /\ Unwrap(value) # ""
        THEN LET domain == Unwrap(value)
             IN  [cookie EXCEPT !.domain =
                     Some(IF starts_with(domain, ".") THEN Tail(domain) ELSE domain)]
        ELSE IF k = "path" /\ IsSome(value)
        THEN [cookie EXCEPT !.path = value]
        ELSE IF k = "samesite" /\ IsSome(value)
        THEN IF eq_ignore_ascii_case(Unwrap(value), "strict")
             THEN [cookie EXCEPT !.same_site = Some("Strict")]
             ELSE IF eq_ignore_ascii_case(Unwrap(value), "lax")
             THEN [cookie EXCEPT !.same_site = Some("Lax")]
             ELSE cookie
        ELSE IF k = "expires" /\ IsSome(value)
        THEN LET tm == parse_gmt_date(Unwrap(value))
             IN  IF tm.tag = "Ok"
                 THEN [cookie EXCEPT !.expires = Some(DateTime(tm.value))]
                 ELSE cookie
        ELSE cookie

\* for attr in attributes { ... }, from the segment i on
RECURSIVE parse_attributes(_, _, _)
parse_attributes(cookie, attributes, i) ==
    IF i > Len(attributes) THEN cookie
    ELSE parse_attributes(parse_attribute(cookie, attributes[i]), attributes, i + 1)

\* A parse_inner that accepts an empty name
parse_inner_anyName(s) ==
    LET attributes == split(s, ";")
        key_value == attributes[1]
        i == find(key_value, "=")
    IN  IF i = None THEN Err("MissingPair")
        ELSE Ok(parse_attributes(
                    CookieNew(trim(SubSeq(key_value, 1, Unwrap(i))),
                              trim(SubSeq(key_value, Unwrap(i) + 2, Len(key_value)))),
                    attributes, 2))

\* parse_inner with decode == false, as Cookie::parse calls it
parse_inner(s) ==
    LET attributes == split(s, ";")
        key_value == attributes[1]
        i == find(key_value, "=")
    IN  IF i = None THEN Err("MissingPair")
        ELSE LET name == trim(SubSeq(key_value, 1, Unwrap(i)))
                 value == trim(SubSeq(key_value, Unwrap(i) + 2, Len(key_value)))
             IN  IF name = "" THEN Err("EmptyName")
                 ELSE Ok(parse_attributes(CookieNew(name, value), attributes, 2))

\* parse_cookie(s, false)
parse_cookie(s) == parse_inner(s)

\* Cookie::parse
parse(s) == parse_cookie(s)

-----------------------------------------------------------------------------
(* Cookie::parse on the strings of a header *)

\* The length of the longest name/value text tried
MaxLen == 4

\* The characters of the name/value text tried
ParseAlphabet == {"a", "=", ";", " "}

\* The strings over ParseAlphabet of at most n characters
RECURSIVE StringsUpTo(_)
StringsUpTo(n) ==
    IF n = 0 THEN {""}
    ELSE LET shorter == StringsUpTo(n - 1)
         IN  shorter \cup { s \o ch : s \in shorter, ch \in ParseAlphabet }

\* The attributes that follow: none, known ones, and unknown names, an
\* unparseable Expires, an unrecognized SameSite value and an empty Domain
AttributeTails ==
    { "",
      ";Secure;x",
      "; Expires=never ;SameSite=none;Domain=",
      ";Max-Age=zz; HttpOnly ;=;;Path=/p; DOMAIN=.b.c" }

\* The values of the Max-Age attributes tried: integers in and out of the
\* range of an i64, with and without a sign, and texts that are no integer
MaxAgeValues ==
    { "0", "-0", "-1", "-100", "1", "60", "007", "4294967296",
      "9223372036854775807", "9223372036854775808", "99999999999999999999",
      "-99999999999999999999", "+5", "+99999999999999999999",
      "abc", "", "1a", "-", "1.5" }

\* A cookie string with a Max-Age attribute of the value v
MaxAgeInput(v, rest) == "foo=bar; Max-Age=" \o v \o rest

\* The strings passed to Cookie::parse
ParseInputs ==
    { head \o tail : head \in StringsUpTo(MaxLen), tail \in AttributeTails }
        \cup { MaxAgeInput(v, rest) : v \in MaxAgeValues, rest \in {"", " ; Secure"} }

\* A string is about to be parsed
ParseInit ==
    /\ original_cookies = {}
    /\ delta_cookies = {}
    /\ now = 0
    /\ prev = Call("new", "", None)
    /\ \E s \in ParseInputs : last = [op |-> "input", input |-> s]

\* Cookie::parse(s)
Parse ==
    /\ last.op = "input"
    /\ last' = [op |-> "parse", input |-> last.input, result |-> parse(last.input)]
    /\ UNCHANGED <<original_cookies, delta_cookies, now, prev>>

\* jar.add_original(cookie) with the cookie of a successful parse
AddParsed ==
    /\ last.op = "parse"
    /\ last.result.tag = "Ok"
    /\ LET jar == add_original(Jar, last.result.value)
       IN  /\ original_cookies' = jar.original_cookies
           /\ delta_cookies' = jar.delta_cookies
    /\ last' = Call("add_original", last.result.value.name, Some(last.result.value))
    /\ prev' = last
    /\ UNCHANGED now

ParseNext == Parse \/ AddParsed

SpecParse == ParseInit /\ [][ParseNext]_vars

-----------------------------------------------------------------------------
(* C19: the two ways a parse fails *)

\* The character of s at the position i, counted from 1
CharAt(s, i) == SubSeq(s, i, i)

\* The position of the first ';' of s, or one past its end
FirstSemicolon(s) ==
    IF \E i \in 1..Len(s) : CharAt(s, i) = ";"
    THEN CHOOSE i \in 1..Len(s) :
             CharAt(s, i) = ";" /\ \A j \in 1..(i - 1) : CharAt(s, j) # ";"
    ELSE Len(s) + 1

\* The positions of the '=' before the first ';'
PairEquals(s) == { i \in 1..(FirstSemicolon(s) - 1) : CharAt(s, i) = "=" }

\* The position of the first '=' before the first ';'
FirstEquals(s) == CHOOSE i \in PairEquals(s) : \A j \in PairEquals(s) : i <= j

\* C19: Cookie::parse fails with MissingPair exactly when the text before
\* the first ';' has no '=', with EmptyName exactly when it has one and only
\* whitespace stands before the first of them, and succeeds on every other
\* input, whatever attributes follow.
C19_ParseFailures ==
    last.op = "parse" =>
        LET s == last.input
            missing == PairEquals(s) = {}
            empty == /\ ~missing
                     /\ \A j \in 1..(FirstEquals(s) - 1) : is_whitespace(CharAt(s, j))
        IN  /\ (last.result = Err("MissingPair")) <=> missing
            /\ (last.result = Err("EmptyName")) <=> empty
            /\ (last.result.tag = "Ok") <=> (~missing /\ ~empty)
            /\ last.result.tag \in {"Ok", "Err"}

\* A name/value pair followed by an unknown attribute, an unparseable
\* Expires, an unrecognized SameSite and an empty Domain has been parsed:
\* the cookie has none of these attributes.
C19_Witness ==
    /\ last.op = "parse"
    /\ last.input = "a=a; Expires=never ;SameSite=none;Domain="
    /\ last.result = Ok(CookieNew("a", "a"))

-----------------------------------------------------------------------------
(* C20: the first '=' is the delimiter *)

\* s without leading or trailing whitespace is t
TrimsTo(s, t) ==
    /\ \E i \in 0..Len(s), j \in 0..Len(s) :
          /\ i + Len(t) + j = Len(s)
          /\ SubSeq(s, i + 1, i + Len(t)) = t
          /\ \A k \in 1..i : is_whitespace(CharAt(s, k))
          /\ \A k \in (Len(s) - j + 1)..Len(s) : is_whitespace(CharAt(s, k))
    /\ t # "" => ~is_whitespace(CharAt(t, 1)) /\ ~is_whitespace(CharAt(t, Len(t)))

\* C20: when the text before the first ';' contains '=' and the parse
\* succeeds, the name is the trimmed text before the first '=' and the value
\* the trimmed text between that '=' and the first ';' or the end, so that
\* further '=' belong to the value; when the parse fails, the name so
\* defined is empty.
C20_FirstEqualsWins ==
    (last.op = "parse" /\ PairEquals(last.input) # {}) =>
        LET s == last.input
            e == FirstEquals(s)
            before == SubSeq(s, 1, e - 1)
            between == SubSeq(s, e + 1, FirstSemicolon(s) - 1)
        IN  IF last.result.tag = "Ok"
            THEN /\ TrimsTo(before, last.result.value.name)
                 /\ TrimsTo(between, last.result.value.value)
            ELSE TrimsTo(before, "")

\* A pair with a second '=' and whitespace after the first has been
\* parsed: the value holds the second '='.
C20_Witness ==
    /\ last.op = "parse"
    /\ last.input = "a= ="
    /\ last.result = Ok(CookieNew("a", "="))

-----------------------------------------------------------------------------
(* C27: removal markers are well founded *)

\* C27: in every reachable jar every delta_cookies entry marked removed has
\* an original_cookies entry of the same name, and no original_cookies entry
\* is marked removed.
C27_MarkersWellFounded ==
    /\ \A d \in delta_cookies :
          d.removed => \E o \in original_cookies : o.cookie.name = d.cookie.name
    /\ \A o \in original_cookies : ~o.removed

\* One name has been removed and the other has then been forced out: the
\* marker of the first is still there, over its original, and nothing is
\* left of the second.
C27_Witness ==
    /\ prev.op = "remove" /\ last.op = "force_remove" /\ prev.name # last.name
    /\ \E d \in Named(delta_cookies, prev.name) : d.removed
    /\ Named(original_cookies, prev.name) # {}
    /\ Named(original_cookies, last.name) = {}
    /\ Named(delta_cookies, last.name) = {}

-----------------------------------------------------------------------------
(* C28: get and iter agree *)

\* C28: in every reachable jar, for every name n, iter() yields a cookie
\* named n exactly when get(n) is Some, yields it once, and yields the very
\* cookie get(n) returns; every cookie iter() yields is the one get returns
\* for its name, so iter().count() is the number of names with get Some.
C28_GetIterAgree ==
    /\ \A n \in Names :
          /\ CountNamed(iter(Jar), n) = (IF IsSome(get(Jar, n)) THEN 1 ELSE 0)
          /\ \A i \in 1..Len(iter(Jar)) :
                iter(Jar)[i].name = n => get(Jar, n) = Some(iter(Jar)[i])
    /\ \A i \in 1..Len(iter(Jar)) : get(Jar, iter(Jar)[i].name) = Some(iter(Jar)[i])
    /\ Len(iter(Jar)) = Cardinality({ n \in Names : IsSome(get(Jar, n)) })

\* Both names have an original; one has just been removed and the other has
\* no delta entry: iter() yields the one original and get agrees.
C28_Witness ==
    /\ last.op = "remove"
    /\ Cardinality(original_cookies) = 2
    /\ Cardinality(delta_cookies) = 1
    /\ get(Jar, last.name) = None
    /\ Len(iter(Jar)) = 1
    /\ \E o \in original_cookies : o.cookie.name # last.name /\ iter(Jar)[1] = o.cookie

-----------------------------------------------------------------------------
(* C29: a call on one name leaves the other names alone *)

\* A call of add, add_original, remove or force_remove on the name n
CallOn(n) ==
    \/ \E c \in Cookies : c.name = n /\ Add(c)
    \/ \E c \in ClientCookies : c.name = n /\ AddOriginal(c)
    \/ \E c \in RemovalCookies : c.name = n /\ Remove(c)
    \/ ForceRemove(n)

\* The cookies of the name m that delta() yields
DeltaItems(self, m) ==
    { delta(self)[i] : i \in { k \in 1..Len(delta(self)) : delta(self)[k].name = m } }

\* C29: a call of add, add_original, remove or force_remove on the name n
\* leaves the original_cookies entry and the delta_cookies entry of every
\* other name m as they were, and with them get(m) and the item of m in
\* delta(); reset_delta leaves original_cookies as it was.
C29_OtherNamesUntouched ==
    [][ LET after == CookieJar(original_cookies', delta_cookies')
        IN  /\ \A n \in Names : \A m \in Names \ {n} :
                  CallOn(n) =>
                      /\ Named(original_cookies', m) = Named(original_cookies, m)
                      /\ Named(delta_cookies', m) = Named(delta_cookies, m)
                      /\ get(after, m) = get(Jar, m)
                      /\ DeltaItems(after, m) = DeltaItems(Jar, m)
            /\ ResetDelta => original_cookies' = original_cookies ]_vars

\* A name has just been forced out of a jar in which the other name has an
\* original and an added cookie: both are still there.
C29_Witness ==
    /\ last.op = "force_remove"
    /\ \E m \in Names \ {last.name} :
          /\ Named(original_cookies, m) # {}
          /\ \E d \in Named(delta_cookies, m) : ~d.removed
    /\ Named(original_cookies, last.name) = {}
    /\ prev.op = "add" /\ prev.name = last.name

-----------------------------------------------------------------------------
(* C21: a Max-Age that is an integer *)

\* v is an integer: digits, with or without a minus sign
IsInteger(v) ==
    LET body == IF starts_with(v, "-") THEN Tail(v) ELSE v
    IN  body # "" /\ all_digits(body)

\* The digits of the integer v without sign and leading zeros
Magnitude(v) == StripZeros(IF starts_with(v, "-") THEN Tail(v) ELSE v)

\* The integer v fits a 64-bit signed integer
FitsI64(v) ==
    \/ Len(Magnitude(v)) < Len(I64_MAX_DIGITS)
    \/ Len(Magnitude(v)) = Len(I64_MAX_DIGITS) /\ DigitsLeq(Magnitude(v), I64_MAX_DIGITS)

\* That many seconds, as a duration
Seconds(v) == DurationSeconds(FALSE, Magnitude(v))

-----------------------------------------------------------------------------
(* C22: a Max-Age that is no integer *)

\* C22 as claimed: when the value of the Max-Age attribute is no signed
\* integer ("abc", or empty) the parse succeeds and max_age is Some(0).
C22_MaxAgeNotInteger ==
    \A v \in {"abc", "", "1a", "-", "1.5"}, rest \in {"", " ; Secure"} :
        (last.op = "parse" /\ last.input = MaxAgeInput(v, rest)) =>
            /\ last.result.tag = "Ok"
            /\ last.result.value.max_age = Some(DurationZero)

-----------------------------------------------------------------------------
(* Cookie::split_parse and the iterator SplitCookies (src/lib.rs) *)

\* A test that finds no segment blank
is_blank_never(segment) == FALSE

\* self.string[i..j].chars().all(|c| c.is_whitespace())
is_blank(segment) == \A k \in 1..Len(segment) : is_whitespace(CharAt(segment, k))

\* SplitCookies::next on the string `string` with self.last == i: the new
\* self.last and the item returned
RECURSIVE split_next(_, _)
split_next(string, i) ==
    IF ~(i < Len(string)) THEN [last |-> i, item |-> None]
    ELSE LET k == find(SubSeq(string, i + 1, Len(string)), ";")
             j == IF IsSome(k) THEN i + Unwrap(k) ELSE Len(string)
             segment == SubSeq(string, i + 1, j)
         IN  IF is_blank(segment)
             THEN split_next(string, j + 1)
             ELSE [last |-> j + 1, item |-> Some(parse_cookie(trim(segment)))]

\* How many calls of next that return None are followed
MaxNones == 2

\* Headers of the test split_parse
SplitCases ==
    { "name=value;;other=key",
      ";a=1 ;  ; =v ; c=",
      " ;   a=1 ;  ; =v ; ;;c===  ",
      "a;b=2; ;c" }

\* The strings passed to Cookie::split_parse
SplitInputs == StringsUpTo(MaxLen) \cup SplitCases

\* Cookie::split_parse(string): the iterator, the items it has returned and
\* the number of times it has returned None
SplitInit ==
    /\ original_cookies = {}
    /\ delta_cookies = {}
    /\ now = 0
    /\ prev = Call("new", "", None)
    /\ \E s \in SplitInputs :
          last = [op |-> "split_parse", string |-> s, last |-> 0,
                  items |-> <<>>, nones |-> 0]

\* SplitCookies::next returns an item
SplitNextSome ==
    /\ last.op \in {"split_parse", "next"}
    /\ LET r == split_next(last.string, last.last)
       IN  /\ IsSome(r.item)
           /\ last' = [last EXCEPT !.op = "next", !.last = r.last,
                                   !.items = Append(@, Unwrap(r.item))]
    /\ UNCHANGED <<original_cookies, delta_cookies, now, prev>>

\* SplitCookies::next returns None
SplitNextNone ==
    /\ last.op \in {"split_parse", "next"}
    /\ last.nones < MaxNones
    /\ LET r == split_next(last.string, last.last)
       IN  /\ r.item = None
           /\ last' = [last EXCEPT !.op = "next", !.last = r.last,
                                   !.nones = @ + 1]
    /\ UNCHANGED <<original_cookies, delta_cookies, now, prev>>

SplitNext == SplitNextSome \/ SplitNextNone

SpecSplit == SplitInit /\ [][SplitNext]_vars

-----------------------------------------------------------------------------
(* C23: split_parse *)

\* The parse results of the segments of a list that are not blank, in order
RECURSIVE ParsedSegments(_)
ParsedSegments(segments) ==
    IF segments = <<>> THEN <<>>
    ELSE IF \A k \in 1..Len(Head(segments)) : is_whitespace(CharAt(Head(segments), k))
    THEN ParsedSegments(Tail(segments))
    ELSE <<parse(Head(segments))>> \o ParsedSegments(Tail(segments))

\* The number of ';' in s
Semicolons(s) == Cardinality({ k \in 1..Len(s) : CharAt(s, k) = ";" })

\* C23: the items split_parse has returned are, in order, the parse results
\* of the first ';'-separated segments that are not empty or all whitespace,
\* an Err for a segment that does not parse included; once next has returned
\* None the items are the results of all such segments, there are at most
\* (number of ';' + 1) of them, and every later call returns None.
C23_SplitParse ==
    last.op \in {"split_parse", "next"} =>
        LET expected == ParsedSegments(split(last.string, ";"))
        IN  /\ Len(last.items) <= Len(expected)
            /\ last.items = SubSeq(expected, 1, Len(last.items))
            /\ last.nones > 0 => last.items = expected
            /\ Len(last.items) <= Semicolons(last.string) + 1
            /\ last.nones > 0 => split_next(last.string, last.last).item = None

\* The header "a;b=2; ;c" has been read to its end and next has returned
\* None twice: three items, an Err, the cookie b=2 and an Err, with nothing
\* for the blank segment.
C23_Witness ==
    /\ last.op = "next"
    /\ last.string = "a;b=2; ;c"
    /\ last.nones = 2
    /\ last.items = <<Err("MissingPair"), Ok(CookieNew("b", "2")), Err("MissingPair")>>

-----------------------------------------------------------------------------
(* Formatting: impl Display for Cookie (src/lib.rs) *)

\* Cookie::set_http_only
set_http_only(c, value) == [c EXCEPT !.http_only = value]

\* Cookie::set_same_site
set_same_site(c, value) == [c EXCEPT !.same_site = value]

\* Cookie::set_partitioned
set_partitioned(c, value) == [c EXCEPT !.partitioned = value]

\* Cookie::domain: the domain without one leading dot
cookie_domain(c) ==
    IF c.domain = None THEN None
    ELSE LET d == Unwrap(c.domain)
         IN  IF starts_with(d, ".") THEN Some(Tail(d)) ELSE Some(d)

\* Cookie::expires_datetime: the date and time of an Expiration::DateTime
expires_datetime(c) ==
    IF c.expires = None THEN None
    ELSE IF Unwrap(c.expires).tag = "DateTime" THEN Some(Unwrap(c.expires).time)
    ELSE None

\* impl Display for SameSite
same_site_fmt(s) ==
    CASE s = "Strict" -> "Strict"
      [] s = "Lax" -> "Lax"
      [] s = "None" -> "None"

\* Duration::whole_seconds, written in decimal as {} writes an i64
whole_seconds(d) ==
    IF d.negative /\ d.digits # "0" THEN "-" \o d.digits ELSE d.digits

\* time.to_offset(UtcOffset::UTC).format(&FMT1) for the dates the model knows
format_date(t) == CASE t = TestDateDay -> TestDate

\* A fmt_parameters that writes Secure only for secure == Some(true)
fmt_parameters_explicitSecure(c) ==
    (IF c.http_only = Some(TRUE) THEN "; HttpOnly" ELSE "")
    \o (IF IsSome(c.same_site)
        THEN "; SameSite=" \o same_site_fmt(Unwrap(c.same_site)) ELSE "")
    \o (IF c.partitioned = Some(TRUE) THEN "; Partitioned" ELSE "")
    \o (IF c.secure = Some(TRUE) THEN "; Secure" ELSE "")
    \o (IF IsSome(c.path) THEN "; Path=" \o Unwrap(c.path) ELSE "")
    \o (IF IsSome(cookie_domain(c))
        THEN "; Domain=" \o Unwrap(cookie_domain(c)) ELSE "")
    \o (IF IsSome(c.max_age)
        THEN "; Max-Age=" \o whole_seconds(Unwrap(c.max_age)) ELSE "")
    \o (IF IsSome(expires_datetime(c))
        THEN "; Expires=" \o format_date(Unwrap(expires_datetime(c))) ELSE "")

\* A fmt_parameters that writes Secure ahead of the other attributes
fmt_parameters_secureFirst(c) ==
    (IF c.secure = Some(TRUE) \/ c.partitioned = Some(TRUE)
           \/ (c.secure = None /\ c.same_site = Some("None"))
        THEN "; Secure" ELSE "")
    \o (IF c.http_only = Some(TRUE) THEN "; HttpOnly" ELSE "")
    \o (IF IsSome(c.same_site)
        THEN "; SameSite=" \o same_site_fmt(Unwrap(c.same_site)) ELSE "")
    \o (IF c.partitioned = Some(TRUE) THEN "; Partitioned" ELSE "")
    \o (IF IsSome(c.path) THEN "; Path=" \o Unwrap(c.path) ELSE "")
    \o (IF IsSome(cookie_domain(c))
        THEN "; Domain=" \o Unwrap(cookie_domain(c)) ELSE "")
    \o (IF IsSome(c.max_age)
        THEN "; Max-Age=" \o whole_seconds(Unwrap(c.max_age)) ELSE "")
    \o (IF IsSome(expires_datetime(c))
        THEN "; Expires=" \o format_date(Unwrap(expires_datetime(c))) ELSE "")

\* Cookie::fmt_parameters
fmt_parameters(c) ==
    (IF c.http_only = Some(TRUE) THEN "; HttpOnly" ELSE "")
    \o (IF IsSome(c.same_site)
        THEN "; SameSite=" \o same_site_fmt(Unwrap(c.same_site)) ELSE "")
    \o (IF c.partitioned = Some(TRUE) THEN "; Partitioned" ELSE "")
    \o (IF c.secure = Some(TRUE) \/ c.partitioned = Some(TRUE)
           \/ (c.secure = None /\ c.same_site = Some("None"))
        THEN "; Secure" ELSE "")
    \o (IF IsSome(c.path) THEN "; Path=" \o Unwrap(c.path) ELSE "")
    \o (IF IsSome(cookie_domain(c))
        THEN "; Domain=" \o Unwrap(cookie_domain(c)) ELSE "")
    \o (IF IsSome(c.max_age)
        THEN "; Max-Age=" \o whole_seconds(Unwrap(c.max_age)) ELSE "")
    \o (IF IsSome(expires_datetime(c))
        THEN "; Expires=" \o format_date(Unwrap(expires_datetime(c))) ELSE "")

\* impl Display for Cookie, through ToString::to_string
to_string(c) == c.name \o "=" \o c.value \o fmt_parameters(c)

-----------------------------------------------------------------------------
(* Cookies built with Cookie::new and the setters, formatted and parsed back *)

\* The values of http_only, secure and partitioned: unset, true and false
TriState == { None, Some(TRUE), Some(FALSE) }

\* The values of same_site: unset, Strict, Lax and SameSite::None
SameSites == { None, Some("Strict"), Some("Lax"), Some("None") }

\* The (path, domain, max_age, expires) a caller sets: nothing; the values of
\* the format test; a domain with a leading dot and upper case; a max_age with
\* a fraction of a second; a negative max_age with a session expiration; a
\* zero max_age; an empty path with a domain that is a lone dot
FormatProfiles ==
    { <<None, None, None, None>>,
      <<Some("/"), Some("www.rust-lang.org"), Some(DurationSeconds(FALSE, "10")),
        Some(DateTime(TestDateDay))>>,
      <<Some("/P"), Some(".Rust-lang.org"), None, None>>,
      <<None, None, Some(DurationNew(FALSE, "1", 500000000)),
        Some(DateTime(TestDateDay))>>,
      <<None, None, Some(DurationSeconds(TRUE, "5")), Some(Session)>>,
      <<Some("/"), None, Some(DurationZero), None>>,
      <<Some(""), Some("."), None, None>> }

\* Cookie::new("foo", "bar") followed by the setters
FormatCookie(http_only, secure, partitioned, same_site, profile) ==
    LET c0 == CookieNew("foo", "bar")
        c1 == set_http_only(c0, http_only)
        c2 == set_secure(c1, secure)
        c3 == set_partitioned(c2, partitioned)
        c4 == set_same_site(c3, same_site)
        c5 == IF IsSome(profile[1]) THEN set_path(c4, Unwrap(profile[1])) ELSE c4
        c6 == IF IsSome(profile[2]) THEN set_domain(c5, Unwrap(profile[2])) ELSE c5
        c7 == set_max_age(c6, profile[3])
    IN  IF IsSome(profile[4]) THEN set_expires(c7, Unwrap(profile[4])) ELSE c7

\* The cookies formatted: every combination of the flags with every profile,
\* a cookie with an empty name and one whose value starts with a space
FormatCookies ==
    { FormatCookie(h, s, p, ss, profile) :
        h \in TriState, s \in TriState, p \in TriState, ss \in SameSites,
        profile \in FormatProfiles }
        \cup { CookieNew("", "bar"), CookieNew("foo", " bar") }

\* A cookie has been built
FormatInit ==
    /\ original_cookies = {}
    /\ delta_cookies = {}
    /\ now = 0
    /\ prev = Call("new", "", None)
    /\ \E c \in FormatCookies : last = [op |-> "cookie", cookie |-> c]

\* cookie.to_string()
Format ==
    /\ last.op = "cookie"
    /\ last' = [op |-> "to_string", cookie |-> last.cookie,
                string |-> to_string(last.cookie)]
    /\ UNCHANGED <<original_cookies, delta_cookies, now, prev>>

\* Cookie::parse(string) on the text to_string() gave
ParseString ==
    /\ last.op = "to_string"
    /\ last' = [op |-> "parse", cookie |-> last.cookie, string |-> last.string,
                result |-> parse(last.string)]
    /\ UNCHANGED <<original_cookies, delta_cookies, now, prev>>

FormatNext == Format \/ ParseString

SpecFormat == FormatInit /\ [][FormatNext]_vars

-----------------------------------------------------------------------------
(* C24: the attribute segments of a formatted cookie *)

\* The order the attribute segments are written in
AttributeOrder ==
    <<"HttpOnly", "SameSite", "Partitioned", "Secure",
      "Path", "Domain", "Max-Age", "Expires">>

\* The condition under which the segment of an attribute is present
Present(c, key) ==
    CASE key = "HttpOnly" -> c.http_only = Some(TRUE)
      [] key = "SameSite" -> c.same_site # None
      [] key = "Partitioned" -> c.partitioned = Some(TRUE)
      [] key = "Secure" -> \/ c.secure = Some(TRUE)
                           \/ c.partitioned = Some(TRUE)
                           \/ (c.secure = None /\ c.same_site = Some("None"))
      [] key = "Path" -> c.path # None
      [] key = "Domain" -> c.domain # None
      [] key = "Max-Age" -> c.max_age # None
      [] key = "Expires" -> c.expires # None /\ Unwrap(c.expires) # Session

\* The attributes whose condition holds, in the fixed order
RECURSIVE PresentFrom(_, _)
PresentFrom(c, i) ==
    IF i > Len(AttributeOrder) THEN <<>>
    ELSE (IF Present(c, AttributeOrder[i]) THEN <<AttributeOrder[i]>> ELSE <<>>)
            \o PresentFrom(c, i + 1)

\* The name of an attribute segment: the text between the space that follows
\* the ';' and the '=' or the end of the segment
SegmentKey(segment) ==
    LET i == find(segment, "=")
    IN  IF IsSome(i) THEN SubSeq(segment, 2, Unwrap(i)) ELSE Tail(segment)

\* The text of a segment after its '=', None without one
SegmentValue(segment) ==
    LET i == find(segment, "=")
    IN  IF IsSome(i) THEN Some(SubSeq(segment, Unwrap(i) + 2, Len(segment))) ELSE None

-----------------------------------------------------------------------------
(* C25: parsing what to_string() wrote *)

\* impl PartialEq for Cookie
cookie_eq(a, b) ==
    /\ a.name = b.name
    /\ a.value = b.value
    /\ a.http_only = b.http_only
    /\ a.secure = b.secure
    /\ a.partitioned = b.partitioned
    /\ a.max_age = b.max_age
    /\ a.expires = b.expires
    /\ \/ a.path = None /\ b.path = None
       \/ /\ a.path # None /\ b.path # None
          /\ eq_ignore_ascii_case(Unwrap(a.path), Unwrap(b.path))
    /\ \/ cookie_domain(a) = None /\ cookie_domain(b) = None
       \/ /\ cookie_domain(a) # None /\ cookie_domain(b) # None
          /\ eq_ignore_ascii_case(Unwrap(cookie_domain(a)), Unwrap(cookie_domain(b)))

Survives(c) ==
    /\ c.name = trim(c.name)
    /\ c.value = trim(c.value)
    /\ c.http_only # Some(FALSE)
    /\ c.partitioned = None
    /\ c.secure = Some(TRUE) \/ (c.secure = None /\ c.same_site # Some("None"))
    /\ c.max_age # None =>
         ~Unwrap(c.max_age).negative /\ Unwrap(c.max_age).nanoseconds = 0
    /\ c.expires # Some(Session)
    /\ cookie_domain(c) # Some("")

-----------------------------------------------------------------------------
(* Threads calling one jar (src/jar.rs). The methods that change the jar    *)
(* take &mut self and the collections are std HashSets, so the source has   *)
(* no synchronisation of its own: a thread's call is modelled as the        *)
(* accesses to the two collections its body makes, one step each, which is  *)
(* the atomicity a concurrent set gives and the most a build of these       *)
(* bodies can give when calls overlap.                                      *)

Threads == {"t1", "t2"}

\* The cookie every thread's call names
ThreadName == "a"

\* The calls a thread makes on the shared jar
ThreadCalls ==
    { Call("add", ThreadName, Some(CookieNew(ThreadName, "2"))),
      Call("remove", ThreadName, Some(CookieNew(ThreadName, "1"))),
      Call("force_remove", ThreadName, None),
      Call("get", ThreadName, None) }

\* The jars the threads start from: with and without an original cookie and a
\* pending change of the name
ThreadJars ==
    { CookieJar(o, d) :
        o \in { {}, {added(CookieNew(ThreadName, "1"))} },
        d \in { {}, {added(CookieNew(ThreadName, "3"))} } }

\* A thread about to make its call
ThreadStart(call) == [call |-> call, pc |-> "start", found |-> FALSE, result |-> None]

\* The jar is shared and every thread is about to make one call
ThreadInit ==
    /\ now = 0
    /\ \E jar \in ThreadJars :
         /\ original_cookies = jar.original_cookies
         /\ delta_cookies = jar.delta_cookies
         /\ prev = [op |-> "shared", jar |-> jar]
    /\ \E calls \in [Threads -> ThreadCalls] :
         last = [op |-> "threads", threads |-> [t \in Threads |-> ThreadStart(calls[t])]]

\* The thread t moves to pc, with found and result as given
ThreadStep(t, pc, found, result) ==
    last' = [last EXCEPT !.threads[t] =
                [call |-> @.call, pc |-> pc, found |-> found, result |-> result]]

\* add: self.delta_cookies.replace(DeltaCookie::added(cookie))
ThreadAdd(t) ==
    LET self == last.threads[t]
    IN  /\ self.pc = "start" /\ self.call.op = "add"
        /\ delta_cookies' = HashReplace(delta_cookies, added(Unwrap(self.call.cookie)))
        /\ ThreadStep(t, "done", FALSE, None)
        /\ UNCHANGED <<original_cookies, now, prev>>

\* remove: if self.original_cookies.contains(cookie.name())
ThreadRemoveCheck(t) ==
    LET self == last.threads[t]
    IN  /\ self.pc = "start" /\ self.call.op = "remove"
        /\ ThreadStep(t, "checked", HashContains(original_cookies, self.call.name), None)
        /\ UNCHANGED <<original_cookies, delta_cookies, now, prev>>

\* remove: the branch taken, delta_cookies.replace(removed(..)) or
\* delta_cookies.remove(name)
ThreadRemoveWrite(t) ==
    LET self == last.threads[t]
    IN  /\ self.pc = "checked"
        /\ delta_cookies' =
             IF self.found
             THEN HashReplace(delta_cookies,
                              removed(make_removal(Unwrap(self.call.cookie), now)))
             ELSE HashRemove(delta_cookies, self.call.name)
        /\ ThreadStep(t, "done", self.found, None)
        /\ UNCHANGED <<original_cookies, now, prev>>

\* force_remove: self.original_cookies.remove(name)
ThreadForceRemoveOriginal(t) ==
    LET self == last.threads[t]
    IN  /\ self.pc = "start" /\ self.call.op = "force_remove"
        /\ original_cookies' = HashRemove(original_cookies, self.call.name)
        /\ ThreadStep(t, "cleared", FALSE, None)
        /\ UNCHANGED <<delta_cookies, now, prev>>

\* force_remove: self.delta_cookies.remove(name)
ThreadForceRemoveDelta(t) ==
    LET self == last.threads[t]
    IN  /\ self.pc = "cleared"
        /\ delta_cookies' = HashRemove(delta_cookies, self.call.name)
        /\ ThreadStep(t, "done", FALSE, None)
        /\ UNCHANGED <<original_cookies, now, prev>>

\* What get makes of the entry it found: and_then(|c| if c.removed { None }
\* else { Some(&c.cookie) })
Visible(c) == IF IsSome(c) /\ ~Unwrap(c).removed THEN Some(Unwrap(c).cookie) ELSE None

\* get: self.delta_cookies.get(name)
ThreadGetDelta(t) ==
    LET self == last.threads[t]
        d == HashGet(delta_cookies, self.call.name)
    IN  /\ self.pc = "start" /\ self.call.op = "get"
        /\ IF IsSome(d)
           THEN ThreadStep(t, "done", TRUE, Visible(d))
           ELSE ThreadStep(t, "looked", FALSE, None)
        /\ UNCHANGED <<original_cookies, delta_cookies, now, prev>>

\* get: .or_else(|| self.original_cookies.get(name))
ThreadGetOriginal(t) ==
    LET self == last.threads[t]
        o == HashGet(original_cookies, self.call.name)
    IN  /\ self.pc = "looked"
        /\ ThreadStep(t, "done", IsSome(o), Visible(o))
        /\ UNCHANGED <<original_cookies, delta_cookies, now, prev>>

ThreadNext ==
    \E t \in Threads :
        \/ ThreadAdd(t)
        \/ ThreadRemoveCheck(t)
        \/ ThreadRemoveWrite(t)
        \/ ThreadForceRemoveOriginal(t)
        \/ ThreadForceRemoveDelta(t)
        \/ ThreadGetDelta(t)
        \/ ThreadGetOriginal(t)

SpecThreads == ThreadInit /\ [][ThreadNext]_vars

-----------------------------------------------------------------------------
(* C26: calls of several threads against sequential orders *)

\* The orders the whole calls of the threads can be put in
Orders ==
    { order \in [1..Cardinality(Threads) -> Threads] :
        \A i, j \in 1..Cardinality(Threads) : order[i] = order[j] => i = j }

\* The jar after the calls of the threads order[i], order[i+1], ... made one
\* after the other on the jar self
RECURSIVE JarAfter(_, _, _)
JarAfter(self, order, i) ==
    IF i > Len(order) THEN self
    ELSE LET call == last.threads[order[i]].call
             after == CASE call.op = "add" -> add(self, Unwrap(call.cookie))
                        [] call.op = "remove" -> remove(self, Unwrap(call.cookie), now)
                        [] call.op = "force_remove" -> force_remove(self, call.name)
                        [] call.op = "get" -> self
         IN  JarAfter(after, order, i + 1)

\* The jar the call of order[i] is made on, when the calls are made in order
JarBefore(order, i) ==
    JarAfter(prev.jar, [k \in 1..(i - 1) |-> order[k]], 1)

-----------------------------------------------------------------------------
(* The representation of a cookie's strings: CookieStr and cookie_string    *)
(* (src/lib.rs, src/parse.rs, src/prefix.rs). Indices are byte offsets      *)
(* counted from 0, a range i..j ends before j.                              *)

\* Cow::Borrowed(s)
Borrowed(s) == [owned |-> FALSE, str |-> s]

\* Cow::Owned(s)
Owned(s) == [owned |-> TRUE, str |-> s]

\* CookieStr::Indexed(i, j)
Indexed(i, j) == [tag |-> "Indexed", i |-> i, j |-> j]

\* CookieStr::Concrete(cow)
Concrete(cow) == [tag |-> "Concrete", cow |-> cow]

\* &s[i..j]
Slice(s, i, j) == SubSeq(s, i + 1, j)

\* CookieStr::to_str: the slice of the base string for an indexed string,
\* a panic without a base string or with a range outside of it
to_str(self, string) ==
    IF self.tag = "Indexed"
    THEN IF string = None THEN Panic
         ELSE IF self.i <= self.j /\ self.j <= Len(Unwrap(string).str)
         THEN Return(Slice(Unwrap(string).str, self.i, self.j))
         ELSE Panic
    ELSE Return(self.cow.str)

\* CookieStr::into_owned
str_into_owned(self) ==
    IF self.tag = "Indexed" THEN self ELSE Concrete(Owned(self.cow.str))

\* Cookie::new, with the name and the value as string literals
new_repr(name, value) ==
    [ cookie_string |-> None, name |-> Concrete(Borrowed(name)),
      value |-> Concrete(Borrowed(value)), path |-> None, domain |-> None,
      secure |-> None ]

\* Cookie::name
repr_name(c) == to_str(c.name, c.cookie_string)

\* Cookie::value
repr_value(c) == to_str(c.value, c.cookie_string)

\* Cookie::path
repr_path(c) ==
    IF c.path = None THEN Return(None)
    ELSE LET p == to_str(Unwrap(c.path), c.cookie_string)
         IN  IF p.tag = "Panic" THEN Panic ELSE Return(Some(p.value))

\* Cookie::domain
repr_domain(c) ==
    IF c.domain = None THEN Return(None)
    ELSE LET d == to_str(Unwrap(c.domain), c.cookie_string)
         IN  IF d.tag = "Panic" THEN Panic
             ELSE IF starts_with(d.value, ".") THEN Return(Some(Tail(d.value)))
             ELSE Return(Some(d.value))

\* Cookie::into_owned
into_owned(c) ==
    [ cookie_string |-> IF c.cookie_string = None THEN None
                        ELSE Some(Owned(Unwrap(c.cookie_string).str)),
      name |-> str_into_owned(c.name),
      value |-> str_into_owned(c.value),
      path |-> IF c.path = None THEN None ELSE Some(str_into_owned(Unwrap(c.path))),
      domain |-> IF c.domain = None THEN None
                 ELSE Some(str_into_owned(Unwrap(c.domain))),
      secure |-> c.secure ]

\* The range of s[i..j] without the whitespace at its start
RECURSIVE trim_start_range(_, _, _)
trim_start_range(s, i, j) ==
    IF i < j /\ is_whitespace(CharAt(s, i + 1)) THEN trim_start_range(s, i + 1, j)
    ELSE i

\* The range of s[i..j] without the whitespace at its end
RECURSIVE trim_end_range(_, _, _)
trim_end_range(s, i, j) ==
    IF i < j /\ is_whitespace(CharAt(s, j)) THEN trim_end_range(s, i, j - 1)
    ELSE j

\* indexes_of(s[i..j].trim(), s)
trim_range(s, i, j) ==
    LET start == trim_start_range(s, i, j)
    IN  <<start, trim_end_range(s, start, j)>>

\* s[i..j].find(ch), as an offset into s
find_range(s, i, j, ch) ==
    IF \E k \in i..(j - 1) : CharAt(s, k + 1) = ch
    THEN Some(CHOOSE k \in i..(j - 1) :
                /\ CharAt(s, k + 1) = ch
                /\ \A m \in i..(k - 1) : CharAt(s, m + 1) # ch)
    ELSE None

\* s.split(';'), as the ranges of the segments from the offset i on
RECURSIVE split_ranges(_, _)
split_ranges(s, i) ==
    LET k == find_range(s, i, Len(s), ";")
    IN  IF k = None THEN << <<i, Len(s)>> >>
        ELSE << <<i, Unwrap(k)>> >> \o split_ranges(s, Unwrap(k) + 1)

\* One turn of the loop over the attributes in parse_inner, for the fields
\* that hold strings and for secure
parse_attribute_repr(cookie, s, attr) ==
    LET eq == find_range(s, attr[1], attr[2], "=")
        key == IF eq = None THEN trim_range(s, attr[1], attr[2])
               ELSE trim_range(s, attr[1], Unwrap(eq))
        value == IF eq = None THEN None
                 ELSE Some(trim_range(s, Unwrap(eq) + 1, attr[2]))
        k == to_ascii_lowercase(Slice(s, key[1], key[2]))
    IN  IF k = "secure" THEN [cookie EXCEPT !.secure = Some(TRUE)]
        ELSE IF k = "domain" /\ value # None /\ Unwrap(value)[1] < Unwrap(value)[2]
        THEN LET v == Unwrap(value)
                 i == IF CharAt(s, v[1] + 1) = "." THEN v[1] + 1 ELSE v[1]
             IN  [cookie EXCEPT !.domain = Some(Indexed(i, v[2]))]
        ELSE IF k = "path" /\ value # None
        THEN [cookie EXCEPT !.path = Some(Indexed(Unwrap(value)[1], Unwrap(value)[2]))]
        ELSE cookie

\* for attr in attributes { ... }, from the segment n on
RECURSIVE parse_attributes_repr(_, _, _, _)
parse_attributes_repr(cookie, s, attributes, n) ==
    IF n > Len(attributes) THEN cookie
    ELSE parse_attributes_repr(parse_attribute_repr(cookie, s, attributes[n]),
                               s, attributes, n + 1)

\* parse_inner with decode == false: the name and the value are indexed and
\* cookie_string is left unset
parse_inner_repr(s) ==
    LET attributes == split_ranges(s, 0)
        key_value == attributes[1]
        eq == find_range(s, key_value[1], key_value[2], "=")
    IN  IF eq = None THEN Err("MissingPair")
        ELSE LET name == trim_range(s, key_value[1], Unwrap(eq))
                 value == trim_range(s, Unwrap(eq) + 1, key_value[2])
             IN  IF name[1] = name[2] THEN Err("EmptyName")
                 ELSE Ok(parse_attributes_repr(
                            [ cookie_string |-> None,
                              name |-> Indexed(name[1], name[2]),
                              value |-> Indexed(value[1], value[2]),
                              path |-> None, domain |-> None, secure |-> None ],
                            s, attributes, 2))

\* A parse_cookie that returns what parse_inner built
parse_cookie_repr_noString(cow) == parse_inner_repr(cow.str)

\* parse_cookie(cow, false)
parse_cookie_repr(cow) ==
    LET cookie == parse_inner_repr(cow.str)
    IN  IF cookie.tag = "Err" THEN cookie
        ELSE Ok([cookie.value EXCEPT !.cookie_string = Some(cow)])

\* Prefix::conform on the fields the representation holds
conform_repr(P, cookie) ==
    IF P = "Host"
    THEN [cookie EXCEPT !.secure = Some(TRUE),
                        !.path = Some(Concrete(Borrowed("/"))),
                        !.domain = None]
    ELSE [cookie EXCEPT !.secure = Some(TRUE)]

\* Prefix::prefix: the name becomes a concrete owned string; every name but
\* an owned one is read with Cookie::name
prefix_repr(P, cookie) ==
    IF cookie.name.tag = "Concrete" /\ cookie.name.cow.owned
    THEN Return([cookie EXCEPT !.name = Concrete(Owned(PREFIX(P) \o cookie.name.cow.str))])
    ELSE IF repr_name(cookie).tag = "Panic" THEN Panic
    ELSE Return([cookie EXCEPT !.name =
                    Concrete(Owned(prefixed_name(P, repr_name(cookie).value)))])

\* Prefix::clip
clip_repr(P, cookie) ==
    IF repr_name(cookie).tag = "Panic" THEN Panic
    ELSE IF ~starts_with(repr_name(cookie).value, PREFIX(P)) THEN Return(cookie)
    ELSE LET len == Len(PREFIX(P))
         IN  Return([cookie EXCEPT !.name =
                 IF @.tag = "Indexed" THEN Indexed(@.i + len, @.j)
                 ELSE IF @.cow.owned
                 THEN Concrete(Owned(Slice(@.cow.str, len, Len(@.cow.str))))
                 ELSE Concrete(Borrowed(Slice(@.cow.str, len, Len(@.cow.str))))])

\* Prefix::apply
apply_repr(P, cookie) ==
    LET prefixed == prefix_repr(P, cookie)
    IN  IF prefixed.tag = "Panic" THEN Panic
        ELSE Return(conform_repr(P, prefixed.value))

-----------------------------------------------------------------------------
(* One cookie under the public operations that touch its strings *)

\* The longest name a cookie is given a further prefix at
MaxNameLen == 8

\* The strings parsed: indexed name, value, path and domain, with and without
\* a prefix, whitespace, an empty value, an empty path and a dotted domain
ReprInputs ==
    { "a=b",
      " __Host-a = b ; Path= /p ;Domain=.c.d",
      "__Secure-__Host-a=;path=;domain=.",
      "__Host-=1; Secure; Domain=e" }

\* The names given to Cookie::new and set_name
ReprNames == { "", "__Host-n" }

\* The texts given to Cookie::new and to the setters of value, path and domain
ReprTexts == { ".x" }

\* The record of the last operation on the cookie and whether it panicked
Repr(op, cookie, panicked) == [op |-> op, cookie |-> cookie, panicked |-> panicked]

\* The outcome of an operation that returns a cookie or panics
ReprOutcome(op, outcome) ==
    IF outcome.tag = "Panic" THEN Repr(op, last.cookie, TRUE)
    ELSE Repr(op, outcome.value, last.panicked)

\* Cookie::new has made a cookie
ReprInit ==
    /\ original_cookies = {}
    /\ delta_cookies = {}
    /\ now = 0
    /\ prev = Call("new", "", None)
    /\ \E name \in ReprNames, value \in ReprTexts :
         last = Repr("new", new_repr(name, value), FALSE)

\* Cookie::parse(s) with a borrowed or an owned string
ReprParse(s, owned) ==
    LET result == parse_cookie_repr(IF owned THEN Owned(s) ELSE Borrowed(s))
    IN  /\ result.tag = "Ok"
        /\ last' = Repr("parse", result.value, last.panicked)
        /\ UNCHANGED <<original_cookies, delta_cookies, now, prev>>

\* Cookie::set_name
ReprSetName(name) ==
    /\ last' = Repr("set_name", [last.cookie EXCEPT !.name = Concrete(Borrowed(name))],
                    last.panicked)
    /\ UNCHANGED <<original_cookies, delta_cookies, now, prev>>

\* Cookie::set_value
ReprSetValue(value) ==
    /\ last' = Repr("set_value", [last.cookie EXCEPT !.value = Concrete(Borrowed(value))],
                    last.panicked)
    /\ UNCHANGED <<original_cookies, delta_cookies, now, prev>>

\* Cookie::set_path
ReprSetPath(path) ==
    /\ last' = Repr("set_path",
                    [last.cookie EXCEPT !.path = Some(Concrete(Borrowed(path)))],
                    last.panicked)
    /\ UNCHANGED <<original_cookies, delta_cookies, now, prev>>

\* Cookie::unset_path
ReprUnsetPath ==
    /\ last' = Repr("unset_path", [last.cookie EXCEPT !.path = None], last.panicked)
    /\ UNCHANGED <<original_cookies, delta_cookies, now, prev>>

\* Cookie::set_domain
ReprSetDomain(d) ==
    /\ last' = Repr("set_domain",
                    [last.cookie EXCEPT !.domain = Some(Concrete(Borrowed(d)))],
                    last.panicked)
    /\ UNCHANGED <<original_cookies, delta_cookies, now, prev>>

\* Cookie::unset_domain
ReprUnsetDomain ==
    /\ last' = Repr("unset_domain", [last.cookie EXCEPT !.domain = None], last.panicked)
    /\ UNCHANGED <<original_cookies, delta_cookies, now, prev>>

\* Cookie::into_owned
ReprIntoOwned ==
    /\ last' = Repr("into_owned", into_owned(last.cookie), last.panicked)
    /\ UNCHANGED <<original_cookies, delta_cookies, now, prev>>

\* PrefixedJar::add: the cookie the parent jar is given
ReprPrefixedAdd(P) ==
    /\ \/ repr_name(last.cookie).tag = "Panic"
       \/ Len(repr_name(last.cookie).value) <= MaxNameLen
    /\ last' = ReprOutcome("prefixed_add", apply_repr(P, last.cookie))
    /\ UNCHANGED <<original_cookies, delta_cookies, now, prev>>

\* PrefixedJar::get: the cookie returned for a cookie the parent jar holds
\* under a prefixed name
ReprPrefixedGet(P) ==
    /\ repr_name(last.cookie).tag = "Return"
    /\ starts_with(repr_name(last.cookie).value, PREFIX(P))
    /\ last' = ReprOutcome("prefixed_get", clip_repr(P, last.cookie))
    /\ UNCHANGED <<original_cookies, delta_cookies, now, prev>>

ReprNext ==
    \/ \E s \in ReprInputs, owned \in BOOLEAN : ReprParse(s, owned)
    \/ \E name \in ReprNames : ReprSetName(name)
    \/ \E value \in ReprTexts : ReprSetValue(value)
    \/ \E path \in ReprTexts : ReprSetPath(path)
    \/ ReprUnsetPath
    \/ \E d \in ReprTexts : ReprSetDomain(d)
    \/ ReprUnsetDomain
    \/ ReprIntoOwned
    \/ \E P \in Prefixes : ReprPrefixedAdd(P)
    \/ \E P \in Prefixes : ReprPrefixedGet(P)

SpecRepr == ReprInit /\ [][ReprNext]_vars

-----------------------------------------------------------------------------
(* C30: indexed strings always have their base string *)

\* An indexed string has a base string and a range inside of it
Backed(str, string) ==
    str.tag = "Indexed" =>
        /\ string # None
        /\ str.i <= str.j
        /\ str.j <= Len(Unwrap(string).str)

\* C30: after any sequence of Cookie::new, Cookie::parse, the setters and
\* unsetters, into_owned and the prefixing and clipping of prefixed jars, every
\* indexed name, value, path and domain of the cookie has a backing
\* cookie_string and indices inside of it, no operation has reached the panic
\* of CookieStr::to_str, and name(), value(), path() and domain() return.
C30_IndexedBacked ==
    LET c == last.cookie
    IN  /\ ~last.panicked
        /\ Backed(c.name, c.cookie_string)
        /\ Backed(c.value, c.cookie_string)
        /\ c.path # None => Backed(Unwrap(c.path), c.cookie_string)
        /\ c.domain # None => Backed(Unwrap(c.domain), c.cookie_string)
        /\ repr_name(c).tag = "Return"
        /\ repr_value(c).tag = "Return"
        /\ repr_path(c).tag = "Return"
        /\ repr_domain(c).tag = "Return"

\* Witness: a cookie parsed from a string with a __Host- name has been
\* returned by a prefixed jar, its indexed name moved past the prefix, and
\* made owned; its name, value, path and domain are still indexed and resolve
\* to the texts of the string.
C30_Witness ==
    /\ last.op = "into_owned"
    /\ last.cookie.cookie_string = Some(Owned(" __Host-a = b ; Path= /p ;Domain=.c.d"))
    /\ last.cookie.name = Indexed(8, 9)
    /\ repr_name(last.cookie) = Return("a")
    /\ last.cookie.value = Indexed(12, 13)
    /\ repr_value(last.cookie) = Return("b")
    /\ last.cookie.path # None /\ Unwrap(last.cookie.path).tag = "Indexed"
    /\ repr_path(last.cookie) = Return(Some("/p"))
    /\ repr_domain(last.cookie) = Return(Some("c.d"))

====
